---------------------------- MODULE Spec2Model ----------------------------
(***************************************************************************)
(* Model of the CERT support agent worker (src/src/index.ts):              *)
(* verifyTax, classifyIntent, extractOrderId and evaluateResponse.         *)
(*                                                                         *)
(* JavaScript numbers are IEEE 754 binary64 values; the arithmetic of      *)
(* verifyTax is modelled bit-exactly (round to nearest, ties to even) on   *)
(* arbitrary-precision naturals kept as little-endian limb sequences.      *)
(* JavaScript strings are modelled as sequences of one-character strings.  *)
(***************************************************************************)
EXTENDS Integers, Sequences, FiniteSets, TLC

(***************************************************************************)
(* Arbitrary-precision naturals: little-endian limbs, no high zero limb,   *)
(* zero is the empty sequence.                                             *)
(***************************************************************************)
LimbBits == 15
BASE == 2^LimbBits

RECURSIVE BNorm(_)
BNorm(a) ==
  IF a = <<>> THEN <<>>
  ELSE IF a[Len(a)] = 0 THEN BNorm(SubSeq(a, 1, Len(a) - 1)) ELSE a

RECURSIVE BFromInt(_)
BFromInt(n) == IF n = 0 THEN <<>> ELSE <<n % BASE>> \o BFromInt(n \div BASE)

RECURSIVE BToInt(_)
BToInt(a) == IF a = <<>> THEN 0 ELSE Head(a) + BASE * BToInt(Tail(a))

BRest(a) == IF a = <<>> THEN <<>> ELSE Tail(a)
BLow(a) == IF a = <<>> THEN 0 ELSE Head(a)

\* a + b + c for a carry c
RECURSIVE BAddC(_, _, _)
BAddC(a, b, c) ==
  IF a = <<>> /\ b = <<>> THEN (IF c = 0 THEN <<>> ELSE <<c>>)
  ELSE <<(BLow(a) + BLow(b) + c) % BASE>>
         \o BAddC(BRest(a), BRest(b), (BLow(a) + BLow(b) + c) \div BASE)

BAdd(a, b) == BAddC(a, b, 0)

RECURSIVE BSubB(_, _, _)
BSubB(a, b, borrow) ==
  IF a = <<>> THEN <<>>
  ELSE <<(Head(a) - BLow(b) - borrow) % BASE>>
         \o BSubB(Tail(a), BRest(b),
                  IF Head(a) - BLow(b) - borrow < 0 THEN 1 ELSE 0)

\* a - b for a >= b
BSub(a, b) == BNorm(BSubB(a, b, 0))

RECURSIVE BCmpAt(_, _, _)
BCmpAt(a, b, i) ==
  IF i = 0 THEN 0
  ELSE IF a[i] < b[i] THEN -1
  ELSE IF a[i] > b[i] THEN 1
  ELSE BCmpAt(a, b, i - 1)

\* -1, 0, 1 as a < b, a = b, a > b
BCmp(a, b) ==
  IF Len(a) < Len(b) THEN -1
  ELSE IF Len(a) > Len(b) THEN 1
  ELSE BCmpAt(a, b, Len(a))

RECURSIVE BMulSmallC(_, _, _)
BMulSmallC(a, k, c) ==
  IF a = <<>> THEN (IF c = 0 THEN <<>> ELSE <<c>>)
  ELSE <<(Head(a) * k + c) % BASE>>
         \o BMulSmallC(Tail(a), k, (Head(a) * k + c) \div BASE)

\* a * k for 0 <= k < BASE
BMulSmall(a, k) == BNorm(BMulSmallC(a, k, 0))

\* a * BASE
BShiftLimb(a) == IF a = <<>> THEN <<>> ELSE <<0>> \o a

RECURSIVE BMul(_, _)
BMul(a, b) ==
  IF a = <<>> \/ b = <<>> THEN <<>>
  ELSE BAdd(BMulSmall(a, Head(b)), BShiftLimb(BMul(a, Tail(b))))

\* the quotient limbs of a by k from limb i down, rem the remainder so far
RECURSIVE BDivSmallAt(_, _, _, _)
BDivSmallAt(a, k, i, rem) ==
  IF i = 0 THEN <<>>
  ELSE BDivSmallAt(a, k, i - 1, (rem * BASE + a[i]) % k)
         \o <<(rem * BASE + a[i]) \div k>>

\* floor(a / k) for 0 < k < BASE
BDivSmall(a, k) == BNorm(BDivSmallAt(a, k, Len(a), 0))

RECURSIVE SmallBitLen(_)
SmallBitLen(n) == IF n = 0 THEN 0 ELSE 1 + SmallBitLen(n \div 2)

BitLen(a) ==
  IF a = <<>> THEN 0 ELSE (Len(a) - 1) * LimbBits + SmallBitLen(a[Len(a)])

BIsOdd(a) == a # <<>> /\ a[1] % 2 = 1

\* bit k of a, bit 0 the lowest
BBit(a, k) ==
  IF k \div LimbBits >= Len(a) THEN 0
  ELSE (a[(k \div LimbBits) + 1] \div 2^(k % LimbBits)) % 2

\* a has a bit set below bit k
BAnyBelow(a, k) ==
  \E i \in 1..Len(a) :
    \/ i <= k \div LimbBits /\ a[i] # 0
    \/ i = (k \div LimbBits) + 1 /\ a[i] % 2^(k % LimbBits) # 0

\* a * 2^n
BShl(a, n) ==
  IF a = <<>> THEN <<>>
  ELSE [i \in 1..(n \div LimbBits) |-> 0] \o BMulSmall(a, 2^(n % LimbBits))

\* floor(a / 2^n)
BShr(a, n) ==
  IF n \div LimbBits >= Len(a) THEN <<>>
  ELSE BDivSmall(SubSeq(a, (n \div LimbBits) + 1, Len(a)), 2^(n % LimbBits))

BOne == <<1>>

Abs(n) == IF n < 0 THEN -n ELSE n

(***************************************************************************)
(* JavaScript number values: IEEE 754 binary64.  A finite value is         *)
(* (-1)^neg * m * 2^e with m of exactly MantBits bits, or zero (m = <<>>). *)
(* The exponent range is not bounded: the amounts of this program stay far *)
(* from overflow and from the subnormal range.  -0 is kept as 0: no        *)
(* operation of the program distinguishes them.                            *)
(*                                                                         *)
(* An intermediate value that is used more than once is a parameter of a   *)
(* helper operator rather than a LET definition, so that the expression    *)
(* computing it occurs once.                                               *)
(***************************************************************************)
MantBits == 53

DZero == [nan |-> FALSE, neg |-> FALSE, m |-> <<>>, e |-> 0]
DNaN == [nan |-> TRUE, neg |-> FALSE, m |-> <<>>, e |-> 0]

IsNaN(x) == x.nan
IsZero(x) == ~x.nan /\ x.m = <<>>

\* (-1)^neg * q * 2^e for q of MantBits or MantBits + 1 bits, the latter a
\* power of two
DRenorm(neg, q, e) ==
  IF BitLen(q) > MantBits
  THEN [nan |-> FALSE, neg |-> neg, m |-> BShr(q, 1), e |-> e + 1]
  ELSE [nan |-> FALSE, neg |-> neg, m |-> q, e |-> e]

\* DRound for a of L > MantBits bits: s = L - MantBits bits are dropped, q is
\* a without them; round up when the dropped bits are more than half a unit
\* of q, or half a unit and q is odd
DRoundDrop(neg, a, e, s, q) ==
  DRenorm(neg,
          IF BBit(a, s - 1) = 1 /\ (BAnyBelow(a, s - 1) \/ BIsOdd(q))
          THEN BAdd(q, BOne) ELSE q,
          e + s)

\* DRound for a # 0 of L bits
DRoundLen(neg, a, e, L) ==
  IF L <= MantBits
  THEN [nan |-> FALSE, neg |-> neg, m |-> BShl(a, MantBits - L),
        e |-> e - (MantBits - L)]
  ELSE DRoundDrop(neg, a, e, L - MantBits, BShr(a, L - MantBits))

\* the binary64 value nearest to (-1)^neg * a * 2^e, ties to even
DRound(neg, a, e) == IF a = <<>> THEN DZero ELSE DRoundLen(neg, a, e, BitLen(a))

\* the number n, an integer below 2^MantBits and so a binary64 value
DFromInt(n) ==
  IF n = 0 THEN DZero
  ELSE DRoundLen(n < 0, BFromInt(Abs(n)), 0, BitLen(BFromInt(Abs(n))))

DNeg(x) == IF x.nan \/ x.m = <<>> THEN x ELSE [x EXCEPT !.neg = ~x.neg]
DAbs(x) == IF x.nan THEN x ELSE [x EXCEPT !.neg = FALSE]

\* x * y
DMul(x, y) ==
  IF x.nan \/ y.nan THEN DNaN
  ELSE DRound(x.neg # y.neg, BMul(x.m, y.m), x.e + y.e)

\* the mantissa of x # 0 as a multiple of 2^e, e <= x.e
DAlign(x, e) == BShl(x.m, x.e - e)

\* (-1)^xneg * ax + (-1)^yneg * ay in units of 2^e, c comparing ax with ay
DAddCmp(xneg, ax, yneg, ay, e, c) ==
  IF xneg # yneg /\ c = 0 THEN DZero
  ELSE DRound(IF xneg = yneg \/ c = 1 THEN xneg ELSE yneg,
              IF xneg = yneg THEN BAdd(ax, ay)
              ELSE BSub(IF c = 1 THEN ax ELSE ay, IF c = 1 THEN ay ELSE ax),
              e)

DAddAligned(xneg, ax, yneg, ay, e) ==
  DAddCmp(xneg, ax, yneg, ay, e, BCmp(ax, ay))

\* x + y
DAdd(x, y) ==
  IF x.nan \/ y.nan THEN DNaN
  ELSE IF x.m = <<>> THEN y
  ELSE IF y.m = <<>> THEN x
  ELSE DAddAligned(x.neg, DAlign(x, IF x.e < y.e THEN x.e ELSE y.e),
                   y.neg, DAlign(y, IF x.e < y.e THEN x.e ELSE y.e),
                   IF x.e < y.e THEN x.e ELSE y.e)

\* x - y
DSub(x, y) == DAdd(x, DNeg(y))

\* x < y for x, y of one sign with magnitudes ax, ay in one unit
DLtAligned(neg, ax, ay) ==
  BCmp(IF neg THEN ay ELSE ax, IF neg THEN ax ELSE ay) = -1

\* x < y (false when either is NaN)
DLt(x, y) ==
  /\ ~x.nan /\ ~y.nan
  /\ IF x.neg # y.neg THEN x.neg
     ELSE DLtAligned(x.neg, DAlign(x, IF x.e < y.e THEN x.e ELSE y.e),
                     DAlign(y, IF x.e < y.e THEN x.e ELSE y.e))

\* x > y
DGt(x, y) == DLt(y, x)

\* the two top limbs of cur, a number of at most Len(d) + 1 limbs, over the
\* top limb of d, capped at BASE - 1
QuotEstimate(cur, d) ==
  LET n == Len(d)
      est == ((IF Len(cur) > n THEN cur[n + 1] ELSE 0) * BASE
              + (IF Len(cur) >= n THEN cur[n] ELSE 0)) \div d[n]
  IN IF est > BASE - 1 THEN BASE - 1 ELSE est

\* the largest q0 <= q with d * q0 <= cur
RECURSIVE QuotFix(_, _, _)
QuotFix(cur, d, q) ==
  IF BCmp(BMulSmall(d, q), cur) <= 0 THEN q ELSE QuotFix(cur, d, q - 1)

\* floor(cur / d) for cur < d * BASE and d with top limb >= BASE / 2
QuotDigit(cur, d) == QuotFix(cur, d, QuotEstimate(cur, d))

\* long division of n by d, limbs i down to 1 still to bring down, q the
\* quotient limbs so far and rem < d the running remainder:
\* <<quotient, remainder>>
RECURSIVE BDivLoop(_, _, _, _, _)
\* the step of BDivLoop for quotient digit qd of cur
BDivNext(n, d, i, q, cur, qd) ==
  BDivLoop(n, d, i - 1, <<qd>> \o q, BSub(cur, BMulSmall(d, qd)))

\* the step of BDivLoop for cur, the remainder with limb i brought down
BDivDigit(n, d, i, q, cur) == BDivNext(n, d, i, q, cur, QuotDigit(cur, d))

BDivLoop(n, d, i, q, rem) ==
  IF i = 0 THEN <<BNorm(q), rem>>
  ELSE BDivDigit(n, d, i, q, BNorm(<<n[i]>> \o rem))

\* BDivMod for d with top limb >= BASE / 2
BDivNormalized(n, d) == BDivLoop(n, d, Len(n), <<>>, <<>>)

\* <<floor(n / d), r>> for d # 0, where r = <<>> iff d divides n
BDivMod(n, d) ==
  BDivNormalized(BShl(n, LimbBits - SmallBitLen(d[Len(d)])),
                 BShl(d, LimbBits - SmallBitLen(d[Len(d)])))

QuotShift == MantBits + 3

\* (-1)^neg * (qr[1] + f) * 2^(e + 1), 0 <= f < 1 nonzero iff qr[2] # <<>>:
\* twice the quotient with a sticky bit, rounded
DQuot(neg, qr, e) ==
  DRound(neg, BAddC(qr[1], qr[1], IF qr[2] = <<>> THEN 0 ELSE 1), e)

\* x / y for y # 0: the quotient to at least MantBits + 3 bits
DDiv(x, y) ==
  IF x.nan \/ y.nan \/ y.m = <<>> THEN DNaN
  ELSE IF x.m = <<>> THEN DZero
  ELSE DQuot(x.neg # y.neg, BDivMod(BShl(x.m, QuotShift), y.m),
             x.e - y.e - QuotShift - 1)

\* Math.round of (-1)^neg * m * 2^(-f), f > 0: the integer nearest to it,
\* ties toward +Infinity, which is floor(m / 2^f + 1/2) for a positive value
\* and -ceil(m / 2^f - 1/2) for a negative one; half is 2^(f - 1)
RoundHalfUp(neg, m, f, half) ==
  DRound(neg, BShr(BSub(BAdd(m, half), IF neg THEN BOne ELSE <<>>), f), 0)

\* Math.round
MathRound(x) ==
  IF x.nan \/ x.m = <<>> \/ x.e >= 0 THEN x
  ELSE RoundHalfUp(x.neg, x.m, -x.e, BShl(BOne, (-x.e) - 1))

\* the value of the decimal literal num/den (num, den integers, den > 0)
DecLit(num, den) == DDiv(DFromInt(num), DFromInt(den))

\* a monetary amount of c cents as stored in a REAL column and read back
Money(c) == DecLit(c, 100)

\* floor(a * 2^e + 1/2)
BNearest(a, e) ==
  IF e >= 0 THEN BShl(a, e) ELSE BShr(BAdd(a, BShl(BOne, (-e) - 1)), -e)

\* the integer nearest to x * 100, computed exactly (x finite)
CentsOf(x) ==
  IF x.m = <<>> THEN 0
  ELSE (IF x.neg THEN -1 ELSE 1) * BToInt(BNearest(BMulSmall(x.m, 100), x.e))

(***************************************************************************)
(* JavaScript strings: sequences of one-character strings.                 *)
(***************************************************************************)
UpperAlpha ==
  <<"A", "B", "C", "D", "E", "F", "G", "H", "I", "J", "K", "L", "M",
    "N", "O", "P", "Q", "R", "S", "T", "U", "V", "W", "X", "Y", "Z">>
LowerAlpha ==
  <<"a", "b", "c", "d", "e", "f", "g", "h", "i", "j", "k", "l", "m",
    "n", "o", "p", "q", "r", "s", "t", "u", "v", "w", "x", "y", "z">>
Digits == {"0", "1", "2", "3", "4", "5", "6", "7", "8", "9"}
WhiteSpace == {" ", "\t", "\n"}

IndexIn(tab, c) == CHOOSE i \in 1..Len(tab) : tab[i] = c
IsUpper(c) == \E i \in 1..Len(UpperAlpha) : UpperAlpha[i] = c
IsLower(c) == \E i \in 1..Len(LowerAlpha) : LowerAlpha[i] = c

ToLowerChar(c) == IF IsUpper(c) THEN LowerAlpha[IndexIn(UpperAlpha, c)] ELSE c
ToUpperChar(c) == IF IsLower(c) THEN UpperAlpha[IndexIn(LowerAlpha, c)] ELSE c

\* String.prototype.toLowerCase / toUpperCase
toLowerCase(s) == [i \in 1..Len(s) |-> ToLowerChar(s[i])]
toUpperCase(s) == [i \in 1..Len(s) |-> ToUpperChar(s[i])]

RECURSIVE TrimStart(_)
TrimStart(s) ==
  IF s # <<>> /\ Head(s) \in WhiteSpace THEN TrimStart(Tail(s)) ELSE s

RECURSIVE TrimEnd(_)
TrimEnd(s) ==
  IF s # <<>> /\ s[Len(s)] \in WhiteSpace
  THEN TrimEnd(SubSeq(s, 1, Len(s) - 1)) ELSE s

\* String.prototype.trim
trim(s) == TrimEnd(TrimStart(s))

IsNotSpace(c) == c \notin WhiteSpace

\* s.replace(/\s+/g, '')
RemoveWhitespace(s) == SelectSeq(s, IsNotSpace)

\* the property key (a TLA+ string) spelled by a character sequence
RECURSIVE Join(_)
Join(s) == IF s = <<>> THEN "" ELSE Head(s) \o Join(Tail(s))

\* s.includes(t)
Includes(s, t) ==
  \E i \in 1..(Len(s) - Len(t) + 1) : SubSeq(s, i, i + Len(t) - 1) = t

(***************************************************************************)
(* Tax logic: verifyTax and the rate table.  Rates are written in          *)
(* ten-thousandths; the number a literal such as 0.0275 denotes is         *)
(* DecLit(275, 10000).                                                     *)
(***************************************************************************)
NC_STATE_BASE_RATE == DecLit(475, 10000)

NC_COUNTY_TAX_RATES ==
  [alamance |-> 200, alexander |-> 225, anson |-> 250, ashe |-> 200,
   beaufort |-> 225, bladen |-> 225, brunswick |-> 225, buncombe |-> 250,
   burke |-> 225, cabarrus |-> 200, caldwell |-> 200, camden |-> 225,
   carteret |-> 200, caswell |-> 225, catawba |-> 200, chatham |-> 225,
   cherokee |-> 225, chowan |-> 225, clay |-> 200, cleveland |-> 225,
   columbus |-> 250, craven |-> 225, cumberland |-> 250, currituck |-> 225,
   dare |-> 200, davidson |-> 225, davie |-> 225, duplin |-> 225,
   durham |-> 275, edgecombe |-> 250, forsyth |-> 225, franklin |-> 250,
   gaston |-> 200, gates |-> 200, graham |-> 200, granville |-> 250,
   greene |-> 225, guilford |-> 225, halifax |-> 250, harnett |-> 225,
   haywood |-> 225, henderson |-> 225, hertford |-> 250, hoke |-> 250,
   hyde |-> 225, iredell |-> 200, jackson |-> 225, johnston |-> 225,
   jones |-> 225, lee |-> 225, lenoir |-> 250, lincoln |-> 225,
   macon |-> 225, madison |-> 225, martin |-> 250, mcdowell |-> 225,
   mecklenburg |-> 250, mitchell |-> 225, montgomery |-> 225,
   moore |-> 225, nash |-> 250, newhanover |-> 225, northampton |-> 250,
   onslow |-> 225, orange |-> 275, pamlico |-> 225, pasquotank |-> 225,
   pender |-> 225, perquimans |-> 200, person |-> 225, pitt |-> 225,
   polk |-> 225, randolph |-> 200, richmond |-> 250, robeson |-> 250,
   rockingham |-> 225, rowan |-> 225, rutherford |-> 225, sampson |-> 225,
   scotland |-> 250, stanly |-> 225, stokes |-> 225, surry |-> 225,
   swain |-> 225, transylvania |-> 225, tyrrell |-> 225, union |-> 200,
   vance |-> 250, wake |-> 250, warren |-> 250, washington |-> 225,
   watauga |-> 225, wayne |-> 225, wilkes |-> 200, wilson |-> 250,
   yadkin |-> 225, yancey |-> 200]

\* names every object literal inherits from Object.prototype
ObjectPrototypeKeys ==
  {"constructor", "__proto__", "hasOwnProperty", "isPrototypeOf",
   "propertyIsEnumerable", "toLocaleString", "toString", "valueOf",
   "__defineGetter__", "__defineSetter__", "__lookupGetter__",
   "__lookupSetter__"}

Undefined == [kind |-> "undefined"]
Null == [kind |-> "null"]
\* a string value where null is possible too
Str(s) == [kind |-> "string", chars |-> s]
\* a value that is not a number: an inherited function or object, or the
\* string that + builds from one
NonNumber == [kind |-> "nonnumber"]
Num(x) == [kind |-> "number", value |-> x]

\* NC_COUNTY_TAX_RATES[countyKey]: property access on the object literal
CountyRateOf(countyKey) ==
  IF countyKey \in DOMAIN NC_COUNTY_TAX_RATES
  THEN Num(DecLit(NC_COUNTY_TAX_RATES[countyKey], 10000))
  ELSE IF countyKey \in ObjectPrototypeKeys THEN NonNumber
  ELSE Undefined

\* order.customer_state?.trim().toUpperCase()
NormalizeState(customer_state) == toUpperCase(trim(customer_state))

\* order.customer_county?.trim().toLowerCase().replace(/\s+/g, '')
CountyKey(customer_county) ==
  Join(RemoveWhitespace(toLowerCase(trim(customer_county))))

StateNC == <<"N", "C">>

\* NC_STATE_BASE_RATE + countyRate (string concatenation for a non-number)
TotalRate(countyRate) ==
  IF countyRate.kind = "number"
  THEN Num(DAdd(NC_STATE_BASE_RATE, countyRate.value))
  ELSE NonNumber

\* Math.round(order.subtotal * totalRate * 100) / 100
ExpectedTax(subtotal, totalRate) ==
  IF totalRate.kind = "number"
  THEN DDiv(MathRound(DMul(DMul(subtotal, totalRate.value), DFromInt(100))),
            DFromInt(100))
  ELSE DNaN

\* mutant: the operands of the subtraction swapped
DiscrepancySwapped(tax_collected, expectedTax) ==
  DDiv(MathRound(DMul(DSub(expectedTax, tax_collected), DFromInt(100))),
       DFromInt(100))

\* Math.round((order.tax_collected - expectedTax) * 100) / 100
Discrepancy(tax_collected, expectedTax) ==
  DDiv(MathRound(DMul(DSub(tax_collected, expectedTax), DFromInt(100))),
       DFromInt(100))

\* mutant: the ratio is rounded as a fraction, not as a percentage
DiscrepancyPctFraction(discrepancy, expectedTax) ==
  IF DGt(expectedTax, DZero)
  THEN DDiv(MathRound(DMul(DDiv(DAbs(discrepancy), expectedTax),
                           DFromInt(100))),
            DFromInt(100))
  ELSE DZero

\* expectedTax > 0 ? Math.round((Math.abs(discrepancy) / expectedTax) * 10000) / 100 : 0
DiscrepancyPct(discrepancy, expectedTax) ==
  IF DGt(expectedTax, DZero)
  THEN DDiv(MathRound(DMul(DDiv(DAbs(discrepancy), expectedTax),
                           DFromInt(10000))),
            DFromInt(100))
  ELSE DZero

\* Math.abs(discrepancy) < 0.01 ? 'correct' : 'discrepancy'
KnownCountyVerdict(discrepancy) ==
  IF DLt(DAbs(discrepancy), DecLit(1, 100)) THEN "correct" ELSE "discrepancy"

\* mutant: tax collected outside NC is not flagged
NotApplicableResultUnflagged(order) ==
  [applicable |-> FALSE,
   expected_rate |-> Num(DZero),
   expected_tax |-> DZero,
   collected_tax |-> order.tax_collected,
   discrepancy |-> DZero,
   discrepancy_pct |-> DZero,
   verdict |-> "not_applicable",
   county_rate_used |-> Num(DZero)]

\* the result for an order outside NC
NotApplicableResult(order) ==
  [applicable |-> FALSE,
   expected_rate |-> Num(DZero),
   expected_tax |-> DZero,
   collected_tax |-> order.tax_collected,
   discrepancy |-> order.tax_collected,
   discrepancy_pct |-> DZero,
   verdict |-> IF DGt(order.tax_collected, DZero)
               THEN "discrepancy" ELSE "not_applicable",
   county_rate_used |-> Num(DZero)]

\* mutant: the unknown-county result copies applicable from the non-NC branch
UnknownCountyResultInapplicable(order) ==
  [applicable |-> FALSE,
   expected_rate |-> Num(DZero),
   expected_tax |-> DZero,
   collected_tax |-> order.tax_collected,
   discrepancy |-> DZero,
   discrepancy_pct |-> DZero,
   verdict |-> "unknown_county",
   county_rate_used |-> Num(DZero)]

\* the result for an NC order whose county has no rate
UnknownCountyResult(order) ==
  [applicable |-> TRUE,
   expected_rate |-> Num(DZero),
   expected_tax |-> DZero,
   collected_tax |-> order.tax_collected,
   discrepancy |-> DZero,
   discrepancy_pct |-> DZero,
   verdict |-> "unknown_county",
   county_rate_used |-> Num(DZero)]

\* the object returned in the known-county branch
KnownCountyRecord(order, countyRate, totalRate, expectedTax, discrepancy) ==
  [applicable |-> TRUE,
   expected_rate |-> totalRate,
   expected_tax |-> expectedTax,
   collected_tax |-> order.tax_collected,
   discrepancy |-> discrepancy,
   discrepancy_pct |-> DiscrepancyPct(discrepancy, expectedTax),
   verdict |-> KnownCountyVerdict(discrepancy),
   county_rate_used |-> countyRate]

\* the known-county branch from const discrepancy on
WithExpectedTax(order, countyRate, totalRate, expectedTax) ==
  KnownCountyRecord(order, countyRate, totalRate, expectedTax,
                    Discrepancy(order.tax_collected, expectedTax))

\* the known-county branch from const expectedTax on
WithTotalRate(order, countyRate, totalRate) ==
  WithExpectedTax(order, countyRate, totalRate,
                  ExpectedTax(order.subtotal, totalRate))

\* the result for an NC order whose county lookup returned a value
KnownCountyResult(order, countyRate) ==
  WithTotalRate(order, countyRate, TotalRate(countyRate))

\* the result for an NC order, countyRate the outcome of the lookup
CountyResult(order, countyRate) ==
  IF countyRate = Undefined THEN UnknownCountyResult(order)
  ELSE KnownCountyResult(order, countyRate)

verifyTax(order) ==
  IF NormalizeState(order.customer_state) # StateNC
  THEN NotApplicableResult(order)
  ELSE CountyResult(order, CountyRateOf(CountyKey(order.customer_county)))

(***************************************************************************)
(* Intent classification: classifyIntent and extractOrderId.  A regular    *)
(* expression that is an alternation of literals tests for a substring.    *)
(***************************************************************************)
\* regex.test(s) for an alternation of literals
TestAny(s, alternatives) == \E a \in alternatives : Includes(s, a)

\* /what.*order/: "what", then characters other than line terminators, then
\* "order"
LineTerminators == {"\n", "\r"}
WhatThenOrder(s) ==
  \E i \in 1..Len(s), j \in 1..Len(s) :
    /\ i + 4 <= j
    /\ j + 4 <= Len(s)
    /\ SubSeq(s, i, i + 3) = <<"w", "h", "a", "t">>
    /\ SubSeq(s, j, j + 4) = <<"o", "r", "d", "e", "r">>
    /\ \A k \in (i + 4)..(j - 1) : s[k] \notin LineTerminators

\* /tax|taxes|taxed|tax rate|tax amount|tax charge|sales tax/i
TaxPattern ==
  {<<"t", "a", "x">>, <<"t", "a", "x", "e", "s">>,
   <<"t", "a", "x", "e", "d">>, <<"t", "a", "x", " ", "r", "a", "t", "e">>,
   <<"t", "a", "x", " ", "a", "m", "o", "u", "n", "t">>,
   <<"t", "a", "x", " ", "c", "h", "a", "r", "g", "e">>,
   <<"s", "a", "l", "e", "s", " ", "t", "a", "x">>}
\* /return|refund|rma|exchange|send back/i
OrderReturnPattern ==
  {<<"r", "e", "t", "u", "r", "n">>, <<"r", "e", "f", "u", "n", "d">>,
   <<"r", "m", "a">>, <<"e", "x", "c", "h", "a", "n", "g", "e">>,
   <<"s", "e", "n", "d", " ", "b", "a", "c", "k">>}
\* the literal alternatives of /item|product|what.*order|contents|kit|gear/i
OrderItemsPattern ==
  {<<"i", "t", "e", "m">>, <<"p", "r", "o", "d", "u", "c", "t">>,
   <<"c", "o", "n", "t", "e", "n", "t", "s">>, <<"k", "i", "t">>,
   <<"g", "e", "a", "r">>}
\* /deliver|arrival|when|eta|ship|transit/i
OrderShippingPattern ==
  {<<"d", "e", "l", "i", "v", "e", "r">>,
   <<"a", "r", "r", "i", "v", "a", "l">>, <<"w", "h", "e", "n">>,
   <<"e", "t", "a">>, <<"s", "h", "i", "p">>,
   <<"t", "r", "a", "n", "s", "i", "t">>}
\* /return|refund|rma|exchange/i
ReturnPattern ==
  {<<"r", "e", "t", "u", "r", "n">>, <<"r", "e", "f", "u", "n", "d">>,
   <<"r", "m", "a">>, <<"e", "x", "c", "h", "a", "n", "g", "e">>}
\* /deliver|ship|transit|arrival|how long/i
ShippingPattern ==
  {<<"d", "e", "l", "i", "v", "e", "r">>, <<"s", "h", "i", "p">>,
   <<"t", "r", "a", "n", "s", "i", "t">>,
   <<"a", "r", "r", "i", "v", "a", "l">>,
   <<"h", "o", "w", " ", "l", "o", "n", "g">>}

OrderIdPrefix == <<"c", "e", "r", "t", "-">>
OrderIdDigits == 6

\* /cert-\d{6}/i matches at position i of s
OrderIdAt(s, i) ==
  /\ i + Len(OrderIdPrefix) + OrderIdDigits - 1 <= Len(s)
  /\ toLowerCase(SubSeq(s, i, i + Len(OrderIdPrefix) - 1)) = OrderIdPrefix
  /\ \A k \in 0..(OrderIdDigits - 1) : s[i + Len(OrderIdPrefix) + k] \in Digits

\* /cert-\d{6}/i.test(s)
HasOrderId(s) == \E i \in 1..Len(s) : OrderIdAt(s, i)

\* mutant: the item vocabulary is tested before the return vocabulary
OrderIntentItemsFirst(q) ==
  IF TestAny(q, OrderItemsPattern) \/ WhatThenOrder(q) THEN "order_items"
  ELSE IF TestAny(q, OrderReturnPattern) THEN "order_return"
  ELSE IF TestAny(q, OrderShippingPattern) THEN "shipping_estimate"
  ELSE "order_status"

\* the sub-classification of a query that holds an order identifier
OrderIntent(q) ==
  IF TestAny(q, OrderReturnPattern) THEN "order_return"
  ELSE IF TestAny(q, OrderItemsPattern) \/ WhatThenOrder(q) THEN "order_items"
  ELSE IF TestAny(q, OrderShippingPattern) THEN "shipping_estimate"
  ELSE "order_status"

\* the classification of a query without tax words and without identifier
GeneralIntent(q) ==
  IF TestAny(q, ReturnPattern) THEN "order_return"
  ELSE IF TestAny(q, ShippingPattern) THEN "shipping_estimate"
  ELSE "general_faq"

\* mutant: the order identifier is looked for before the tax vocabulary
classifyIntentIdFirst(s) ==
  LET q == toLowerCase(s)
  IN IF HasOrderId(s) THEN OrderIntent(q)
     ELSE IF TestAny(q, TaxPattern) THEN "tax_inquiry"
     ELSE GeneralIntent(q)

classifyIntent(s) ==
  LET q == toLowerCase(s)
  IN IF TestAny(q, TaxPattern) THEN "tax_inquiry"
     ELSE IF HasOrderId(s) THEN OrderIntent(q)
     ELSE GeneralIntent(q)

\* query.match(/CERT-\d{6}/i): the leftmost match uppercased, or Null
extractOrderId(s) ==
  IF HasOrderId(s)
  THEN LET i == CHOOSE i \in 1..Len(s) :
                  OrderIdAt(s, i) /\ \A j \in 1..(i - 1) : ~OrderIdAt(s, j)
       IN Str(toUpperCase(SubSeq(s, i, i + Len(OrderIdPrefix) + OrderIdDigits - 1)))
  ELSE Null

(***************************************************************************)
(* Number to string.  The amounts printed by the evaluator are values of   *)
(* at most two decimals, whose shortest round-trip decimal is the amount   *)
(* itself without trailing zeros.                                          *)
(***************************************************************************)
DigitChars == <<"0", "1", "2", "3", "4", "5", "6", "7", "8", "9">>

RECURSIVE NatToString(_)
NatToString(n) ==
  IF n < 10 THEN <<DigitChars[n + 1]>>
  ELSE NatToString(n \div 10) \o <<DigitChars[(n % 10) + 1]>>

\* the decimal of a cents: the dollars, then the cents without trailing zeros
AmountToString(a) ==
  NatToString(a \div 100)
    \o (IF a % 100 = 0 THEN <<>>
        ELSE IF a % 10 = 0 THEN <<".", DigitChars[((a % 100) \div 10) + 1]>>
        ELSE <<".", DigitChars[((a % 100) \div 10) + 1],
               DigitChars[(a % 10) + 1]>>)

\* String(x) for x an amount of c cents
CentsToString(c) == (IF c < 0 THEN <<"-">> ELSE <<>>) \o AmountToString(Abs(c))

\* String(x) for x NaN or an amount of whole cents
NumberToString(x) ==
  IF x.nan THEN <<"N", "a", "N">> ELSE CentsToString(CentsOf(x))

(***************************************************************************)
(* Response evaluator: evaluateResponse.                                   *)
(***************************************************************************)
\* \w of a regular expression
IsWordChar(c) == IsUpper(c) \/ IsLower(c) \/ c \in Digits \/ c = "_"

MinInventedDigits == 10

\* /\b[0-9]{10,}\b/.test(r)
HasLongNumber(r) ==
  \E i \in 1..Len(r) :
    /\ r[i] \in Digits
    /\ (i = 1 \/ ~IsWordChar(r[i - 1]))
    /\ \E j \in (i + MinInventedDigits - 1)..Len(r) :
         /\ \A k \in i..j : r[k] \in Digits
         /\ (j = Len(r) \/ ~IsWordChar(r[j + 1]))

\* order.tracking_number && !r.includes(...) && /\b[0-9]{10,}\b/.test(r)
InventedTracking(r, tracking_number) ==
  /\ tracking_number # <<>>
  /\ ~Includes(r, toLowerCase(tracking_number))
  /\ HasLongNumber(r)

\* customer_name.split(' ')[0]
FirstWord(name) ==
  IF \E i \in 1..Len(name) : name[i] = " "
  THEN SubSeq(name, 1, (CHOOSE i \in 1..Len(name) :
                          name[i] = " " /\ \A j \in 1..(i - 1) : name[j] # " ") - 1)
  ELSE name

\* if (cond) attribution.push(name)
Push(cond, name) == IF cond THEN <<name>> ELSE <<>>

\* mutant: carrier is pushed before tracking_number
AttributionCarrierFirst(r, ord, tax) ==
  Push(Includes(r, toLowerCase(ord.status)), "status")
  \o Push(Includes(r, toLowerCase(ord.carrier)), "carrier")
  \o Push(Includes(r, toLowerCase(ord.tracking_number)), "tracking_number")
  \o Push(Includes(r, toLowerCase(ord.estimated_delivery)), "estimated_delivery")
  \o Push(Includes(r, toLowerCase(FirstWord(ord.customer_name))), "customer_name")
  \o Push(~IsNaN(ord.tax_collected) /\ ~IsZero(ord.tax_collected)
            /\ Includes(r, NumberToString(ord.tax_collected)), "tax_collected")
  \o Push(tax # Null /\ Includes(r, NumberToString(tax.expected_tax)), "expected_tax")

\* the seven attribution checks in their order
Attribution(r, ord, tax) ==
  Push(Includes(r, toLowerCase(ord.status)), "status")
  \o Push(Includes(r, toLowerCase(ord.tracking_number)), "tracking_number")
  \o Push(Includes(r, toLowerCase(ord.carrier)), "carrier")
  \o Push(Includes(r, toLowerCase(ord.estimated_delivery)), "estimated_delivery")
  \o Push(Includes(r, toLowerCase(FirstWord(ord.customer_name))), "customer_name")
  \o Push(~IsNaN(ord.tax_collected) /\ ~IsZero(ord.tax_collected)
            /\ Includes(r, NumberToString(ord.tax_collected)), "tax_collected")
  \o Push(tax # Null /\ Includes(r, NumberToString(tax.expected_tax)), "expected_tax")

Intents ==
  {"order_status", "order_return", "order_items", "shipping_estimate",
   "tax_inquiry", "general_faq", "unknown"}

intentKeywords ==
  [order_status |->
     {<<"s", "t", "a", "t", "u", "s">>,
      <<"s", "h", "i", "p", "p", "e", "d">>,
      <<"p", "r", "o", "c", "e", "s", "s", "i", "n", "g">>,
      <<"d", "e", "l", "i", "v", "e", "r", "e", "d">>,
      <<"t", "r", "a", "n", "s", "i", "t">>},
   order_return |->
     {<<"r", "e", "t", "u", "r", "n">>, <<"r", "e", "f", "u", "n", "d">>,
      <<"r", "m", "a">>, <<"e", "l", "i", "g", "i", "b", "l", "e">>,
      <<"e", "x", "c", "h", "a", "n", "g", "e">>},
   order_items |->
     {<<"i", "t", "e", "m">>, <<"p", "r", "o", "d", "u", "c", "t">>,
      <<"k", "i", "t">>, <<"v", "e", "s", "t">>, <<"g", "e", "a", "r">>,
      <<"s", "k", "u">>, <<"q", "t", "y">>},
   shipping_estimate |->
     {<<"d", "e", "l", "i", "v", "e", "r">>,
      <<"a", "r", "r", "i", "v", "a", "l">>,
      <<"e", "s", "t", "i", "m", "a", "t", "e", "d">>,
      <<"c", "a", "r", "r", "i", "e", "r">>,
      <<"t", "r", "a", "c", "k", "i", "n", "g">>},
   tax_inquiry |->
     {<<"t", "a", "x">>, <<"r", "a", "t", "e">>,
      <<"c", "h", "a", "r", "g", "e", "d">>,
      <<"a", "m", "o", "u", "n", "t">>, <<"c", "o", "u", "n", "t", "y">>,
      <<"c", "o", "r", "r", "e", "c", "t">>},
   general_faq |->
     {<<"h", "e", "l", "p">>, <<"s", "u", "p", "p", "o", "r", "t">>,
      <<"c", "o", "n", "t", "a", "c", "t">>,
      <<"q", "u", "e", "s", "t", "i", "o", "n">>},
   unknown |-> {}]

\* Math.min(x, y)
MathMin(x, y) == IF x.nan \/ y.nan THEN DNaN ELSE IF DLt(y, x) THEN y ELSE x

\* mutant: the share of keywords found, without the base of 0.5
ContextAdherenceShare(r, keywords) ==
  IF Cardinality(keywords) > 0
  THEN MathMin(DFromInt(1),
               DDiv(DFromInt(Cardinality({kw \in keywords : Includes(r, kw)})),
                    DFromInt(Cardinality(keywords))))
  ELSE DecLit(8, 10)

\* keywords.length > 0 ? Math.min(1.0, 0.5 + (hits / keywords.length) * 0.5) : 0.8
ContextAdherence(r, keywords) ==
  IF Cardinality(keywords) > 0
  THEN MathMin(DFromInt(1),
               DAdd(DecLit(5, 10),
                    DMul(DDiv(DFromInt(Cardinality({kw \in keywords : Includes(r, kw)})),
                              DFromInt(Cardinality(keywords))),
                         DecLit(5, 10))))
  ELSE DecLit(8, 10)

\* attribution.length >= 2 ? 0.95 : attribution.length === 1 ? 0.75 : 0.5
Groundedness(attribution) ==
  IF Len(attribution) >= 2 THEN DecLit(95, 100)
  ELSE IF Len(attribution) = 1 THEN DecLit(75, 100)
  ELSE DecLit(5, 10)

\* r.length > 120 ? 0.9 : r.length > 60 ? 0.75 : 0.5
Completeness(r) ==
  IF Len(r) > 120 THEN DecLit(9, 10)
  ELSE IF Len(r) > 60 THEN DecLit(75, 100)
  ELSE DecLit(5, 10)

OrderWord == <<"o", "r", "d", "e", "r">>

\* the metrics of a response given without an order
NoOrderMetrics(r) ==
  [faithfulness |-> IF Includes(r, OrderWord) THEN DecLit(9, 10) ELSE DecLit(7, 10),
   context_adherence |-> DFromInt(1),
   groundedness |-> DecLit(5, 10),
   completeness |-> IF Len(r) > 80 THEN DecLit(8, 10) ELSE DecLit(5, 10),
   chunk_attribution |-> <<>>]

\* the metrics of a response given with an order
OrderMetrics(int, ord, r, attribution) ==
  [faithfulness |-> IF InventedTracking(r, ord.tracking_number)
                    THEN DecLit(4, 10) ELSE DecLit(95, 100),
   context_adherence |-> ContextAdherence(r, intentKeywords[int]),
   groundedness |-> Groundedness(attribution),
   completeness |-> Completeness(r),
   chunk_attribution |-> attribution]

\* evaluateResponse from const r = response.toLowerCase() on
EvaluateLower(int, ord, r, tax) ==
  IF ord = Null THEN NoOrderMetrics(r)
  ELSE OrderMetrics(int, ord, r, Attribution(r, ord, tax))

evaluateResponse(int, ord, resp, tax) ==
  EvaluateLower(int, ord, toLowerCase(resp), tax)

(***************************************************************************)
(* Prompt composition: buildPrompt.  The prompt is kept as the template    *)
(* chosen and the values placed in it.  JSON.parse is given by its value   *)
(* on the items texts of the model.                                        *)
(***************************************************************************)
SeedItems == "[{\"name\":\"Dust Masks N95 x20\",\"qty\":1,\"sku\":\"CO-DM-N95\"}]"

\* JSON.parse(text): the value, or SyntaxError when text is no JSON text
SyntaxError == [json |-> "SyntaxError"]
JSONParse(text) ==
  CASE text = SeedItems ->
         [json |-> "array",
          elements |-> <<[json |-> "object", name |-> "Dust Masks N95 x20",
                          qty |-> 1, sku |-> "CO-DM-N95"]>>]
    [] text = "[]" -> [json |-> "array", elements |-> <<>>]
    [] text = "[null]" -> [json |-> "array", elements |-> <<[json |-> "null"]>>]
    [] text = "[{}]" -> [json |-> "array", elements |-> <<[json |-> "object"]>>]
    [] text = "null" -> [json |-> "null"]
    [] text = "{}" -> [json |-> "object"]
    [] text = "0" -> [json |-> "number"]
    [] text \in {"", "[{", "Dust Masks N95 x20"} -> SyntaxError

\* try { return JSON.parse(order.items) } catch { return [] }
ParseItems(text) ==
  IF JSONParse(text) = SyntaxError THEN [json |-> "array", elements |-> <<>>]
  ELSE JSONParse(text)

\* items.map(...) throws: items has no map method, or an element is null
MapThrows(items) ==
  \/ items.json # "array"
  \/ \E k \in 1..Len(items.elements) : items.elements[k].json = "null"

\* `${i.qty}x ${i.name} (SKU: ${i.sku})`, a missing property being undefined
ItemText(i) ==
  IF "qty" \in DOMAIN i THEN [qty |-> i.qty, name |-> i.name, sku |-> i.sku]
  ELSE [qty |-> "undefined", name |-> "undefined", sku |-> "undefined"]

\* itemList || 'N/A'
NotAvailable == <<[text |-> "N/A"]>>
ItemList(items) ==
  IF items.elements = <<>> THEN NotAvailable
  ELSE [k \in 1..Len(items.elements) |-> ItemText(items.elements[k])]

\* mutant: the if-chain tests the verdict before applicable
TaxBlockVerdictFirst(order, taxResult) ==
  IF taxResult = Null THEN [note |-> "none"]
  ELSE IF taxResult.verdict = "correct" THEN [note |-> "correct"]
  ELSE IF taxResult.verdict = "discrepancy"
    THEN [note |-> "discrepancy",
          dir |-> IF DGt(taxResult.discrepancy, DZero)
                  THEN "overcharged" ELSE "undercharged"]
  ELSE IF taxResult.verdict = "unknown_county" THEN [note |-> "unknown_county"]
  ELSE IF DGt(order.tax_collected, DZero)
    THEN [note |-> "not_applicable_charged"]
  ELSE [note |-> "not_applicable_correct"]

\* the tax annotation chosen by the if-chain on taxResult
TaxBlock(order, taxResult) ==
  IF taxResult = Null THEN [note |-> "none"]
  ELSE IF ~taxResult.applicable
    THEN IF DGt(order.tax_collected, DZero)
         THEN [note |-> "not_applicable_charged"]
         ELSE [note |-> "not_applicable_correct"]
  ELSE IF taxResult.verdict = "correct" THEN [note |-> "correct"]
  ELSE IF taxResult.verdict = "discrepancy"
    THEN [note |-> "discrepancy",
          dir |-> IF DGt(taxResult.discrepancy, DZero)
                  THEN "overcharged" ELSE "undercharged"]
  ELSE IF taxResult.verdict = "unknown_county" THEN [note |-> "unknown_county"]
  ELSE [note |-> "none"]

\* the instruction returned when no order was resolved
NoOrderPrompt(query) ==
  [thrown |-> FALSE,
   template |-> IF extractOrderId(query) # Null
                THEN "order_not_found" ELSE "general_help",
   query |-> query]

\* buildPrompt from const itemList on: the instruction with the order context
OrderPrompt(intent, query, order, taxResult, items) ==
  IF MapThrows(items) THEN [thrown |-> TRUE]
  ELSE [thrown |-> FALSE,
        template |-> "order_context",
        query |-> query,
        order_id |-> order.order_id,
        Items |-> ItemList(items),
        returnStatus |-> IF order.return_eligible # 0
                         THEN "eligible for return within 30 days"
                         ELSE "not eligible for return",
        taxBlock |-> TaxBlock(order, taxResult),
        instruction |-> intent]

buildPrompt(intent, query, order, taxResult) ==
  IF order = Null THEN NoOrderPrompt(query)
  ELSE OrderPrompt(intent, query, order, taxResult, ParseItems(order.items))

(***************************************************************************)
(* The worker: fetch.  A request is a record of the handler's locals; pc   *)
(* names the await the handler is suspended at.  The code between two      *)
(* awaits runs without interruption and is one operator on the request.    *)
(* calls lists the requests made to the collaborators.                     *)
(***************************************************************************)
RATE_LIMIT_MAX == 20

NoIntent == "none"

\* parseInt(raw, 10) of a string of digits
RECURSIVE ParseInt(_)
ParseInt(raw) ==
  IF raw = <<>> THEN 0
  ELSE 10 * ParseInt(SubSeq(raw, 1, Len(raw) - 1))
         + (CHOOSE d \in 0..9 : DigitChars[d + 1] = raw[Len(raw)])

\* raw ? parseInt(raw, 10) : 0, raw the value kv.get returned
CountOf(raw) == IF raw = Null \/ raw.chars = <<>> THEN 0 ELSE ParseInt(raw.chars)

\* the locals at the start of fetch
NewRequest ==
  [pc |-> "idle", calls |-> {}, count |-> 0, query |-> <<>>,
   intent |-> NoIntent, orderId |-> Null, order |-> Null, taxResult |-> Null,
   update |-> [status |-> "none"], steps |-> <<>>, prompt |-> Null,
   answer |-> <<>>, evalMetrics |-> Null, trace |-> Null,
   emission |-> "none", response |-> Null,
   lookup |-> "none", llm |-> "none"]

\* return jsonResponse(body, status)
Respond(r, status, body) ==
  [r EXCEPT !.pc = "done", !.response = [status |-> status, body |-> body]]

\* a collaborator is called
Call(r, name) == [r EXCEPT !.calls = @ \cup {name}]

\* fetch up to the first await: the method checks, then kv.get is called
Begin(r, kind) ==
  IF kind = "OPTIONS" THEN Respond(r, 204, Null)
  ELSE IF kind = "GET /health" THEN Respond(r, 200, [status |-> "ok"])
  ELSE IF kind # "POST" THEN Respond(r, 405, [error |-> "Method not allowed. Use POST."])
  ELSE Call([r EXCEPT !.pc = "kv.get"], "kv.get")

\* isRateLimited after kv.get returned raw
AfterGet(r, raw) ==
  IF CountOf(raw) >= RATE_LIMIT_MAX
  THEN Respond(r, 429, [error |-> "Too many requests. Please wait a moment."])
  ELSE Call([r EXCEPT !.pc = "kv.put", !.count = CountOf(raw)], "kv.put")

\* the value isRateLimited puts: String(count + 1)
PutValue(r) == Str(NatToString(r.count + 1))

\* mutant: a discrepancy is stored like an unverified order
VerifiedFlagCorrectOnly(verdict) == IF verdict = "correct" THEN 1 ELSE 0

\* taxResult.verdict === 'correct' ? 1 : taxResult.verdict === 'discrepancy' ? -1 : 0
VerifiedFlag(verdict) ==
  IF verdict = "correct" THEN 1 ELSE IF verdict = "discrepancy" THEN -1 ELSE 0

\* mutant: the step is put in front of the earlier ones
PushStepFirst(steps, step) == <<step>> \o steps

\* steps.push(step)
PushStep(steps, step) == Append(steps, step)

\* the retriever step
RetrieverStep(r, order, taxResult) ==
  [step_type |-> "retriever",
   input |-> r.query,
   output |-> IF order # Null
              THEN [order_id |-> order.order_id, status |-> order.status]
              ELSE [text |-> "not_found"],
   metadata |-> [intent |-> r.intent, order_found |-> order # Null,
                 tax_verdict |-> IF taxResult # Null
                                 THEN Str(taxResult.verdict) ELSE Null]]

\* STEP 2 up to await callLLM, prompt the outcome of buildPrompt
AfterPrompt(r, prompt) ==
  IF prompt.thrown THEN [r EXCEPT !.pc = "thrown"]
  ELSE Call([r EXCEPT !.pc = "ai.run", !.prompt = prompt], "ai.run")

\* the background update handed to ctx.waitUntil, if any, and the first step
AfterTax(r, order, taxResult) ==
  AfterPrompt(
    [(IF order # Null /\ taxResult # Null THEN Call(r, "db.update") ELSE r)
       EXCEPT !.order = order,
              !.taxResult = taxResult,
              !.update = IF order # Null /\ taxResult # Null
                         THEN [status |-> "pending",
                               order_id |-> order.order_id,
                               value |-> VerifiedFlag(taxResult.verdict)]
                         ELSE [status |-> "none"],
              !.steps = PushStep(r.steps, RetrieverStep(r, order, taxResult))],
    buildPrompt(r.intent, r.query, order, taxResult))

\* fetch after getOrderFromDB returned order (a row or Null)
AfterLookup(r, order) ==
  AfterTax(r, order, IF order # Null THEN verifyTax(order) ELSE Null)

\* STEP 1 once intent and orderId are known: the lookup, if there is an id
Lookup(r) ==
  IF r.orderId # Null THEN Call([r EXCEPT !.pc = "db.select"], "db.select")
  ELSE AfterTax(r, Null, Null)

\* fetch from STEP 1 on, all gates passed
Retrieve(r) ==
  Lookup([r EXCEPT !.intent = classifyIntent(r.query),
                   !.orderId = extractOrderId(r.query)])

\* mutant: the lookup is started before the challenge result is tested
AfterTurnstileLate(r, valid) ==
  IF ~valid
  THEN Respond(Call(r, "db.select"), 403, [error |-> "Turnstile verification failed."])
  ELSE Retrieve(r)

\* fetch after validateTurnstile returned valid
AfterTurnstile(r, valid) ==
  IF ~valid THEN Respond(r, 403, [error |-> "Turnstile verification failed."])
  ELSE Retrieve(r)

\* !body.query || typeof body.query !== 'string' || !body.query.trim()
NoQuery(body) == "query" \notin DOMAIN body \/ trim(body.query) = <<>>

\* fetch after request.json() settled with body (SyntaxError: it rejected)
AfterBody(r, body, secret) ==
  IF body = SyntaxError THEN Respond(r, 400, [error |-> "Invalid JSON body."])
  ELSE IF NoQuery(body)
    THEN Respond(r, 400, [error |-> "Missing or empty \"query\" field."])
  ELSE IF secret
    THEN Call([r EXCEPT !.pc = "turnstile", !.query = body.query], "turnstile")
  ELSE Retrieve([r EXCEPT !.query = body.query])

ApologyText == "I encountered an issue processing your request. Please try again."
FallbackText == "I could not generate a response. Please try again."

\* the characters of a string literal of the model
Chars(text) ==
  CASE text = ApologyText ->
         <<"I", " ", "e", "n", "c", "o", "u", "n", "t", "e", "r", "e", "d", " ",
           "a", "n", " ", "i", "s", "s", "u", "e", " ", "p", "r", "o", "c", "e",
           "s", "s", "i", "n", "g", " ", "y", "o", "u", "r", " ", "r", "e", "q",
           "u", "e", "s", "t", ".", " ", "P", "l", "e", "a", "s", "e", " ", "t",
           "r", "y", " ", "a", "g", "a", "i", "n", ".">>
    [] text = FallbackText ->
         <<"I", " ", "c", "o", "u", "l", "d", " ", "n", "o", "t", " ", "g", "e",
           "n", "e", "r", "a", "t", "e", " ", "a", " ", "r", "e", "s", "p", "o",
           "n", "s", "e", ".", " ", "P", "l", "e", "a", "s", "e", " ", "t", "r",
           "y", " ", "a", "g", "a", "i", "n", ".">>

\* callLLM: what ai.run did (an answer, no response field, an exception)
callLLM(outcome) ==
  IF outcome.kind = "error" THEN Chars(ApologyText)
  ELSE IF outcome.kind = "empty" THEN Chars(FallbackText)
  ELSE outcome.text

\* getOrderFromDB: what the store did (a row, no row, an exception)
getOrderFromDB(outcome) ==
  IF outcome.kind = "row" THEN outcome.row ELSE Null

\* the trace assembled from the locals
Trace(r, steps, evalMetrics) ==
  [intent |-> r.intent,
   order_id_extracted |-> r.orderId,
   order_found |-> r.order # Null,
   tax_verified |-> IF r.order # Null THEN Num(r.order.tax_verified) ELSE Null,
   tax_discrepancy |-> IF r.taxResult # Null THEN r.taxResult.discrepancy ELSE Null,
   rate_limited |-> FALSE,
   steps |-> steps,
   eval_metrics |-> evalMetrics]

\* the emission is handed to ctx.waitUntil and the 200 response returned
Finish(r, answer, trace) ==
  Respond([r EXCEPT !.answer = answer,
                    !.evalMetrics = trace.eval_metrics,
                    !.steps = trace.steps,
                    !.trace = trace,
                    !.emission = "pending"],
          200,
          [query |-> r.query, intent |-> r.intent, order_id |-> r.orderId,
           order_found |-> r.order # Null, response |-> answer,
           tax_check |-> r.taxResult, _galileo |-> trace])

\* STEP 3 and the trace, evalMetrics the outcome of evaluateResponse
AfterEval(r, answer, evalMetrics) ==
  Finish(r, answer,
         Trace(r,
               PushStep(PushStep(r.steps,
                                 [step_type |-> "llm", input |-> r.prompt,
                                  output |-> answer]),
                        [step_type |-> "evaluator", input |-> answer,
                         output |-> evalMetrics,
                         metadata |-> [chunk_attribution |->
                                         evalMetrics.chunk_attribution]]),
               evalMetrics))

\* fetch after callLLM returned answer
AfterLLM(r, answer) ==
  AfterEval(r, answer, evaluateResponse(r.intent, r.order, answer, r.taxResult))

\* the data point emitTrace writes
DataPoint(trace) ==
  [blobs |-> <<trace.intent,
               IF trace.order_id_extracted # Null
               THEN trace.order_id_extracted.chars ELSE <<>> >>,
   doubles |-> <<trace.eval_metrics.faithfulness,
                 trace.eval_metrics.context_adherence,
                 trace.eval_metrics.groundedness,
                 trace.eval_metrics.completeness,
                 IF trace.order_found THEN 1 ELSE 0,
                 IF trace.rate_limited THEN 1 ELSE 0,
                 IF trace.tax_discrepancy # Null
                 THEN trace.tax_discrepancy ELSE DZero>>]

\* mutant: a failed emission is reported to the client
EmissionSettledAwaited(r, written) ==
  IF written THEN [r EXCEPT !.emission = "written"]
  ELSE Respond([r EXCEPT !.emission = "failed"], 500, [error |-> "trace"])

\* the emission task ran: writeDataPoint returned or threw
EmissionSettled(r, written) ==
  [r EXCEPT !.emission = IF written THEN "written" ELSE "failed"]

\* the UPDATE settled: it ran, or it failed and the failure was logged
UpdateSettled(r, done) ==
  [r EXCEPT !.update.status = IF done THEN "done" ELSE "failed"]

(***************************************************************************)
(* State.  null is Null; an order is the row read from the orders table.   *)
(***************************************************************************)
VARIABLES
  order,        \* the order row under examination, or Null
  taxResult,    \* verifyTax(order), or Null before it ran
  pc,           \* how far the handling of the query has come
  query,        \* body.query
  intent,       \* classifyIntent(query) once pc has passed "received"
  orderId,      \* extractOrderId(query) once pc is "extracted"
  response,     \* the text callLLM returned
  evalMetrics,  \* evaluateResponse(...), or Null before it ran
  prompt,       \* buildPrompt(...), or Null before it ran
  req,          \* the invocations of fetch: request number -> locals
  env,          \* the bindings: whether TURNSTILE_SECRET is set
  kv,           \* RATE_LIMITER: the value under the client's key, or Null
  admitted,     \* requests isRateLimited let through in this window
  db,           \* the orders table: its row, or Null
  sink          \* ANALYTICS: the data points written, by request

vars ==
  <<order, taxResult, pc, query, intent, orderId, response, evalMetrics,
    prompt, req, env, kv, admitted, db, sink>>
taxVars == <<order, taxResult>>
intentVars == <<pc, query, intent, orderId>>
evalVars == <<response, evalMetrics>>
workerVars == <<req, env, kv, admitted, db, sink>>


\* the columns of a seed row that verifyTax does not read
SeedRow ==
  [order_id |-> <<"C", "E", "R", "T", "-", "0", "0", "0", "0", "0", "1">>,
   customer_name |-> <<"C", "u", "s", "t", "o", "m", "e", "r", " ", "A">>,
   status |-> <<"s", "h", "i", "p", "p", "e", "d">>,
   tracking_number |-> <<"T", "R", "A", "C", "K", "-", "D", "U", "M", "M", "Y", "-", "0", "0", "1">>,
   carrier |-> <<"U", "P", "S">>,
   estimated_delivery |-> <<"2", "0", "2", "6", "-", "0", "2", "-", "2", "8">>,
   tax_verified |-> 0]

\* an orders row
OrderRow(row, state, county, subtotalCents, collectedCents) ==
  [order_id |-> row.order_id,
   customer_name |-> row.customer_name,
   customer_state |-> state,
   customer_county |-> county,
   status |-> row.status,
   tracking_number |-> row.tracking_number,
   carrier |-> row.carrier,
   estimated_delivery |-> row.estimated_delivery,
   subtotal |-> Money(subtotalCents),
   tax_collected |-> Money(collectedCents),
   tax_verified |-> row.tax_verified]

(***************************************************************************)
(* Inputs of the tax specification.                                        *)
(***************************************************************************)
MaxSubtotalSteps == 4
MaxCollectedCents == 8
SubtotalStep == 100

\* subtotal and tax_collected of the seed orders CERT-000001, -04, -05, -09
SeedSubtotals == {18999, 21275, 9500, 15900}
SeedCollected == {1377, 1383, 855, 1153}

\* $4.75 in Alamance: an expected tax of $0.32
TieSubtotals == {475}

SubtotalCents ==
  {k * SubtotalStep : k \in 0..MaxSubtotalSteps} \cup SeedSubtotals
    \cup TieSubtotals
CollectedCents == (0..MaxCollectedCents) \cup SeedCollected

TaxStates ==
  {<<"N", "C">>,
   <<" ", "n", "c", " ">>,
   <<"C", "A">>,
   <<"N", " ", "C">>}

TaxCounties ==
  {<<"W", "a", "k", "e">>,
   <<" ", "w", "a", "k", "e", " ">>,
   <<"D", "U", "R", "H", "A", "M">>,
   <<"N", "e", "w", " ", "H", "a", "n", "o", "v", "e", "r">>,
   <<"O", "r", "a", "n", "g", "e">>,
   <<"A", "l", "a", "m", "a", "n", "c", "e">>,
   <<"A", "t", "l", "a", "n", "t", "i", "s">>,
   <<>>,
   <<"C", "o", "n", "s", "t", "r", "u", "c", "t", "o", "r">>}

IntentIdle ==
  /\ pc = "idle"
  /\ query = <<>>
  /\ intent = NoIntent
  /\ orderId = Null

EvalIdle ==
  /\ response = <<>>
  /\ evalMetrics = Null

PromptIdle == prompt = Null

WorkerIdle ==
  /\ req = <<>>
  /\ env = [TURNSTILE_SECRET |-> FALSE]
  /\ kv = Null
  /\ admitted = 0
  /\ db = Null
  /\ sink = {}

TaxInit ==
  /\ order = Null
  /\ taxResult = Null
  /\ IntentIdle
  /\ EvalIdle
  /\ PromptIdle
  /\ WorkerIdle

\* getOrderFromDB returns a row
TaxReadOrder ==
  /\ order = Null
  /\ \E state \in TaxStates, county \in TaxCounties,
        sc \in SubtotalCents, tc \in CollectedCents :
       order' = OrderRow(SeedRow, state, county, sc, tc)
  /\ UNCHANGED <<taxResult, intentVars, evalVars>>
  /\ UNCHANGED <<prompt, workerVars>>

\* const taxResult = order ? verifyTax(order) : null
VerifyTax ==
  /\ order # Null
  /\ taxResult = Null
  /\ taxResult' = verifyTax(order)
  /\ UNCHANGED <<order, intentVars, evalVars>>
  /\ UNCHANGED <<prompt, workerVars>>

TaxNext == TaxReadOrder \/ VerifyTax

TaxSpec == TaxInit /\ [][TaxNext]_vars

(***************************************************************************)
(* Inputs of the intent specification: queries of up to MaxQueryWords      *)
(* words separated by single spaces.                                       *)
(***************************************************************************)
MaxQueryWords == 3

QueryWords ==
  {<<"T", "a", "x">>,
   <<"c", "e", "r", "t", "-", "0", "0", "0", "0", "0", "4">>,
   <<"C", "E", "R", "T", "-", "1", "2", "3", "4", "5">>,
   <<"C", "E", "R", "T", "-", "1", "2", "3", "4", "5", "6", "7">>,
   <<"r", "e", "t", "u", "r", "n">>,
   <<"s", "e", "n", "d", " ", "b", "a", "c", "k">>, <<"i", "t", "e", "m">>,
   <<"w", "h", "a", "t">>, <<"o", "r", "d", "e", "r">>,
   <<"w", "h", "e", "n">>, <<"e", "t", "a">>,
   <<"h", "o", "w", " ", "l", "o", "n", "g">>, <<"\n">>}

RECURSIVE JoinWords(_)
JoinWords(ws) ==
  IF Len(ws) = 0 THEN <<>>
  ELSE IF Len(ws) = 1 THEN ws[1]
  ELSE ws[1] \o <<" ">> \o JoinWords(Tail(ws))

IntentInit ==
  /\ order = Null
  /\ taxResult = Null
  /\ IntentIdle
  /\ EvalIdle
  /\ PromptIdle
  /\ WorkerIdle

\* the request body is parsed: body.query
ReceiveQuery ==
  /\ pc = "idle"
  /\ \E n \in 1..MaxQueryWords : \E ws \in [1..n -> QueryWords] :
       query' = JoinWords(ws)
  /\ pc' = "received"
  /\ UNCHANGED <<intent, orderId, taxVars, evalVars>>
  /\ UNCHANGED <<prompt, workerVars>>

\* const intent = classifyIntent(body.query)
ClassifyIntent ==
  /\ pc = "received"
  /\ intent' = classifyIntent(query)
  /\ pc' = "classified"
  /\ UNCHANGED <<query, orderId, taxVars, evalVars>>
  /\ UNCHANGED <<prompt, workerVars>>

\* const orderId = extractOrderId(body.query)
ExtractOrderId ==
  /\ pc = "classified"
  /\ orderId' = extractOrderId(query)
  /\ pc' = "extracted"
  /\ UNCHANGED <<query, intent, taxVars, evalVars>>
  /\ UNCHANGED <<prompt, workerVars>>

IntentNext == ReceiveQuery \/ ClassifyIntent \/ ExtractOrderId

IntentSpec == IntentInit /\ [][IntentNext]_vars

(***************************************************************************)
(* Inputs of the evaluator specification: an order (or none), its tax      *)
(* check, an intent and a response of up to MaxResponseWords words.        *)
(***************************************************************************)
MaxResponseWords == 2

\* seed order CERT-000004
SeedRow4 ==
  [order_id |-> <<"C", "E", "R", "T", "-", "0", "0", "0", "0", "0", "4">>,
   customer_name |-> <<"C", "u", "s", "t", "o", "m", "e", "r", " ", "D">>,
   status |-> <<"d", "e", "l", "i", "v", "e", "r", "e", "d">>,
   tracking_number |-> <<"T", "R", "A", "C", "K", "-", "D", "U", "M", "M", "Y", "-", "0", "0", "4">>,
   carrier |-> <<"F", "e", "d", "E", "x">>,
   estimated_delivery |-> <<"2", "0", "2", "6", "-", "0", "2", "-", "1", "5">>,
   tax_verified |-> 0]

\* seed order CERT-000007, with a tracking number as carriers issue them
NumericTrackingRow ==
  [order_id |-> <<"C", "E", "R", "T", "-", "0", "0", "0", "0", "0", "7">>,
   customer_name |-> <<"C", "u", "s", "t", "o", "m", "e", "r", " ", "G">>,
   status |-> <<"s", "h", "i", "p", "p", "e", "d">>,
   tracking_number |-> <<"7", "9", "4", "6", "4", "4", "7", "9", "0", "1", "3", "2">>,
   carrier |-> <<"U", "S", "P", "S">>,
   estimated_delivery |-> <<"2", "0", "2", "6", "-", "0", "3", "-", "0", "2">>,
   tax_verified |-> 0]

\* seed order CERT-000008
SeedRow8 ==
  [order_id |-> <<"C", "E", "R", "T", "-", "0", "0", "0", "0", "0", "8">>,
   customer_name |-> <<"C", "u", "s", "t", "o", "m", "e", "r", " ", "H">>,
   status |-> <<"d", "e", "l", "i", "v", "e", "r", "e", "d">>,
   tracking_number |-> <<"T", "R", "A", "C", "K", "-", "D", "U", "M", "M", "Y", "-", "0", "0", "8">>,
   carrier |-> <<"F", "e", "d", "E", "x">>,
   estimated_delivery |-> <<"2", "0", "2", "6", "-", "0", "2", "-", "1", "9">>,
   tax_verified |-> 0]

EvalOrders ==
  {OrderRow(SeedRow4, <<"N", "C">>, <<"D", "u", "r", "h", "a", "m">>, 21275, 1383),
   OrderRow(NumericTrackingRow, <<"N", "C">>, <<"G", "u", "i", "l", "f", "o", "r", "d">>, 44500, 3115),
   OrderRow(SeedRow8, <<"C", "A">>, <<"L", "o", "s", " ", "A", "n", "g", "e", "l", "e", "s">>, 29900, 0)}

ResponseWords ==
  {<<"T", "R", "A", "C", "K", "-", "D", "U", "M", "M", "Y", "-", "0", "0", "4">>,
   <<"7", "9", "4", "6", "4", "4", "7", "9", "0", "1", "3", "2">>,
   <<"9", "9", "9", "9", "9", "9", "9", "9", "9", "9", "9", "9">>,
   <<"r", "e", "f", "1", "2", "3", "4", "5", "6", "7", "8", "9", "0">>,
   <<"C", "u", "s", "t", "o", "m", "e", "r">>,
   <<"d", "e", "l", "i", "v", "e", "r", "e", "d">>,
   <<"F", "e", "d", "E", "x">>, <<"1", "5", ".", "9", "6">>,
   <<"1", "3", ".", "8", "3">>,
   <<"h", "e", "l", "p", ":", " ", "c", "o", "n", "t", "a", "c", "t", " ",
     "s", "u", "p", "p", "o", "r", "t", ",", " ", "q", "u", "e", "s", "t",
     "i", "o", "n">>}

EvalInit ==
  /\ order = Null
  /\ taxResult = Null
  /\ IntentIdle
  /\ EvalIdle
  /\ PromptIdle
  /\ WorkerIdle

\* getOrderFromDB returns a row
EvalReadOrder ==
  /\ pc = "idle"
  /\ order = Null
  /\ order' \in EvalOrders
  /\ UNCHANGED <<taxResult, intentVars, evalVars>>
  /\ UNCHANGED <<prompt, workerVars>>

\* callLLM returns the answer to a query of some intent
ReceiveResponse ==
  /\ pc = "idle"
  /\ order # Null => taxResult # Null
  /\ \E n \in 1..MaxResponseWords : \E ws \in [1..n -> ResponseWords] :
       response' = JoinWords(ws)
  /\ intent' \in Intents
  /\ pc' = "answered"
  /\ UNCHANGED <<order, taxResult, query, orderId, evalMetrics>>
  /\ UNCHANGED <<prompt, workerVars>>

\* const evalMetrics = evaluateResponse(intent, order, answer, taxResult)
EvaluateResponse ==
  /\ pc = "answered"
  /\ evalMetrics' = evaluateResponse(intent, order, response, taxResult)
  /\ pc' = "evaluated"
  /\ UNCHANGED <<order, taxResult, query, intent, orderId, response>>
  /\ UNCHANGED <<prompt, workerVars>>

EvalNext == EvalReadOrder \/ VerifyTax \/ ReceiveResponse \/ EvaluateResponse

EvalSpec == EvalInit /\ [][EvalNext]_vars

(***************************************************************************)
(* Inputs of the prompt specification: an order (or none) with its items   *)
(* text, its tax check, a query and an intent.                             *)
(***************************************************************************)
ItemsTexts ==
  {SeedItems, "[]", "[null]", "[{}]", "null", "{}", "0", "", "[{",
   "Dust Masks N95 x20"}

\* a row with the columns buildPrompt reads besides those of OrderRow
WithItems(row, items, return_eligible) ==
  row @@ [items |-> items, return_eligible |-> return_eligible]

PromptCounties ==
  {<<"D", "u", "r", "h", "a", "m">>,
   <<"A", "t", "l", "a", "n", "t", "i", "s">>,
   <<"C", "o", "n", "s", "t", "r", "u", "c", "t", "o", "r">>}

PromptOrders ==
  {WithItems(OrderRow(SeedRow4, state, county, 21275, tc), items, eligible) :
     state \in {<<"N", "C">>, <<"C", "A">>}, county \in PromptCounties,
     tc \in {0, 1383, 1596, 1600}, items \in ItemsTexts, eligible \in {0, 1}}

PromptQueries ==
  {<<"w", "h", "e", "r", "e", " ", "i", "s", " ", "C", "E", "R", "T", "-",
     "0", "0", "0", "0", "0", "4">>,
   <<"c", "e", "r", "t", "-", "1", "2", "3", "4", "5", "6", "7">>,
   <<"C", "E", "R", "T", "-", "1", "2", "3", "4", "5">>,
   <<"h", "e", "l", "p">>}

PromptInit ==
  /\ order = Null
  /\ taxResult = Null
  /\ IntentIdle
  /\ EvalIdle
  /\ PromptIdle
  /\ WorkerIdle

\* getOrderFromDB returns a row
PromptReadOrder ==
  /\ pc = "idle"
  /\ order = Null
  /\ order' \in PromptOrders
  /\ UNCHANGED <<taxResult, intentVars, evalVars, prompt, workerVars>>

\* the query and the intent buildPrompt is called with
PromptReceiveQuery ==
  /\ pc = "idle"
  /\ order # Null => taxResult # Null
  /\ query' \in PromptQueries
  /\ intent' \in Intents
  /\ pc' = "classified"
  /\ UNCHANGED <<orderId, taxVars, evalVars, prompt, workerVars>>

\* const prompt = buildPrompt(intent, body.query, order, taxResult)
BuildPrompt ==
  /\ pc = "classified"
  /\ prompt = Null
  /\ prompt' = buildPrompt(intent, query, order, taxResult)
  /\ UNCHANGED <<intentVars, taxVars, evalVars, workerVars>>

PromptNext == PromptReadOrder \/ VerifyTax \/ PromptReceiveQuery \/ BuildPrompt

PromptSpec == PromptInit /\ [][PromptNext]_vars

(***************************************************************************)
(* The worker's specifications.  FetchSpec follows one request through     *)
(* fetch with every kind of request and every conduct of the               *)
(* collaborators; RaceSpec runs MaxRequests requests of one client for     *)
(* one order side by side.  Requests are numbered as they arrive.          *)
(***************************************************************************)
MaxRequests == 2

otherVars ==
  <<order, taxResult, pc, query, intent, orderId, response, evalMetrics, prompt>>

\* the counter of the window: absent, or close to the limit
InitialCounters ==
  {Null} \cup {Str(NatToString(c)) :
                 c \in (RATE_LIMIT_MAX - MaxRequests + 1)..RATE_LIMIT_MAX}

TaxQuery ==
  <<"t", "a", "x", " ", "C", "E", "R", "T", "-", "0", "0", "0", "0", "0", "4">>

FetchKinds == {"OPTIONS", "GET /health", "GET /", "POST"}

FetchBodies ==
  {SyntaxError, [json |-> "object"], [query |-> <<" ">>], [query |-> TaxQuery],
   [query |-> <<"c", "e", "r", "t", "-", "0", "0", "0", "0", "0", "9">>],
   [query |-> <<"h", "e", "l", "p">>]}

\* seed order CERT-000004 as stored, and with other items texts
FetchRows ==
  {WithItems(OrderRow(SeedRow4, <<"N", "C">>, <<"D", "u", "r", "h", "a", "m">>,
                      21275, 1383), items, 1) :
     items \in {SeedItems, "[{", "null"}}

\* one order with each verdict
RaceRows ==
  {WithItems(OrderRow(SeedRow4, <<"N", "C">>, <<"D", "u", "r", "h", "a", "m">>,
                      21275, 1383), SeedItems, 1),
   WithItems(OrderRow(SeedRow4, <<"N", "C">>, <<"D", "u", "r", "h", "a", "m">>,
                      21275, 1596), SeedItems, 1),
   WithItems(OrderRow(SeedRow4, <<"C", "A">>, <<>>, 21275, 0), SeedItems, 1),
   WithItems(OrderRow(SeedRow4, <<"N", "C">>,
                      <<"A", "t", "l", "a", "n", "t", "i", "s">>, 21275, 1383),
             SeedItems, 1)}

\* ai.run returns an answer
Answered ==
  [kind |-> "answer",
   text |-> <<"D", "e", "l", "i", "v", "e", "r", "e", "d", " ", "b", "y", " ",
              "F", "e", "d", "E", "x", ".">>]

\* what ai.run can do
AiOutcomes == {Answered, [kind |-> "error"], [kind |-> "empty"]}

WorkerInit(requests, secrets, rows) ==
  /\ order = Null
  /\ taxResult = Null
  /\ IntentIdle
  /\ EvalIdle
  /\ PromptIdle
  /\ req = [i \in requests |-> NewRequest]
  /\ env \in {[TURNSTILE_SECRET |-> secret] : secret \in secrets}
  /\ kv \in InitialCounters
  /\ admitted = CountOf(kv)
  /\ db \in rows
  /\ sink = {}

\* a request arrives and runs up to its first await
Arrive(kinds) ==
  \E i \in DOMAIN req, kind \in kinds :
    /\ req[i].pc = "idle"
    /\ \A j \in 1..(i - 1) : req[j].pc # "idle"
    /\ req' = [req EXCEPT ![i] = Begin(@, kind)]
    /\ UNCHANGED <<env, kv, admitted, db, sink, otherVars>>

\* const raw = await kv.get(key)
KvGet ==
  \E i \in DOMAIN req :
    /\ req[i].pc = "kv.get"
    /\ req' = [req EXCEPT ![i] = AfterGet(@, kv)]
    /\ UNCHANGED <<env, kv, admitted, db, sink, otherVars>>

\* await kv.put(key, String(count + 1), ...); isRateLimited returns false
KvPut ==
  \E i \in DOMAIN req :
    /\ req[i].pc = "kv.put"
    /\ kv' = PutValue(req[i])
    /\ admitted' = admitted + 1
    /\ req' = [req EXCEPT ![i].pc = "request.json"]
    /\ UNCHANGED <<env, db, sink, otherVars>>

\* body = await request.json()
ParseBody(bodies) ==
  \E i \in DOMAIN req, body \in bodies :
    /\ req[i].pc = "request.json"
    /\ req' = [req EXCEPT ![i] = AfterBody(@, body, env.TURNSTILE_SECRET)]
    /\ UNCHANGED <<env, kv, admitted, db, sink, otherVars>>

\* const valid = await validateTurnstile(...)
Turnstile ==
  \E i \in DOMAIN req, valid \in BOOLEAN :
    /\ req[i].pc = "turnstile"
    /\ req' = [req EXCEPT ![i] = AfterTurnstile(@, valid)]
    /\ UNCHANGED <<env, kv, admitted, db, sink, otherVars>>

\* what the SELECT of request i can do
SelectOutcomes(i) ==
  {[kind |-> "error"]}
    \cup (IF db # Null /\ db.order_id = req[i].orderId.chars
          THEN {[kind |-> "row", row |-> db]} ELSE {[kind |-> "no row"]})

\* const order = await getOrderFromDB(env.DB, orderId)
DbSelect ==
  \E i \in DOMAIN req :
    /\ req[i].pc = "db.select"
    /\ \E outcome \in SelectOutcomes(i) :
         req' = [req EXCEPT ![i] = AfterLookup([@ EXCEPT !.lookup = outcome.kind],
                                               getOrderFromDB(outcome))]
    /\ UNCHANGED <<env, kv, admitted, db, sink, otherVars>>

\* const answer = await callLLM(env.AI, prompt)
AiRun(outcomes) ==
  \E i \in DOMAIN req, outcome \in outcomes :
    /\ req[i].pc = "ai.run"
    /\ req' = [req EXCEPT ![i] = AfterLLM([@ EXCEPT !.llm = outcome.kind],
                                          callLLM(outcome))]
    /\ UNCHANGED <<env, kv, admitted, db, sink, otherVars>>

\* the UPDATE handed to ctx.waitUntil runs, or fails
DbUpdate ==
  \E i \in DOMAIN req, done \in BOOLEAN :
    /\ req[i].update.status = "pending"
    /\ req' = [req EXCEPT ![i] = UpdateSettled(@, done)]
    /\ db' = IF done /\ db # Null /\ db.order_id = req[i].update.order_id
             THEN [db EXCEPT !.tax_verified = req[i].update.value]
             ELSE db
    /\ UNCHANGED <<env, kv, admitted, sink, otherVars>>

\* the emitTrace handed to ctx.waitUntil runs: the point is written, or not
EmitTrace ==
  \E i \in DOMAIN req, written \in BOOLEAN :
    /\ req[i].emission = "pending"
    /\ req' = [req EXCEPT ![i] = EmissionSettled(Call(@, "analytics.write"), written)]
    /\ sink' = IF written THEN sink \cup {<<i, DataPoint(req[i].trace)>>} ELSE sink
    /\ UNCHANGED <<env, kv, admitted, db, otherVars>>

FetchInit == WorkerInit({1}, BOOLEAN, FetchRows)

FetchNext ==
  \/ Arrive(FetchKinds) \/ KvGet \/ KvPut \/ ParseBody(FetchBodies) \/ Turnstile
  \/ DbSelect \/ AiRun(AiOutcomes) \/ DbUpdate \/ EmitTrace

FetchSpec == FetchInit /\ [][FetchNext]_vars

RaceInit == WorkerInit(1..MaxRequests, {FALSE}, RaceRows)

RaceNext ==
  \/ Arrive({"POST"}) \/ KvGet \/ KvPut \/ ParseBody({[query |-> TaxQuery]})
  \/ DbSelect \/ AiRun({Answered}) \/ DbUpdate \/ EmitTrace

RaceSpec == RaceInit /\ [][RaceNext]_vars

(***************************************************************************)
(* Properties of verifyTax (TaxSpec).                                      *)
(***************************************************************************)
Verified == order # Null /\ taxResult # Null
InNC == NormalizeState(order.customer_state) = StateNC
ListedCounty == CountyKey(order.customer_county) \in DOMAIN NC_COUNTY_TAX_RATES
\* the rate of the order's county in ten-thousandths
ListedRate == NC_COUNTY_TAX_RATES[CountyKey(order.customer_county)]
BaseRateTenThousandths == 475

\* subtotal (cents) times rate (ten-thousandths), rounded half-up to the cent
HalfUpCents(subtotalCents, rate) == (subtotalCents * rate + 5000) \div 10000

\* C1: for an NC order in a listed county with rate R and subtotal S,
\* expected_rate = 0.0475 + R, county_rate_used = R and expected_tax is
\* S x (0.0475 + R) rounded half-up to the cent.
C1_ExpectedTaxHalfUp ==
  (Verified /\ InNC /\ ListedCounty) =>
    /\ taxResult.expected_rate
         = Num(DAdd(DecLit(BaseRateTenThousandths, 10000), DecLit(ListedRate, 10000)))
    /\ taxResult.county_rate_used = Num(DecLit(ListedRate, 10000))
    /\ taxResult.expected_tax
         = Money(HalfUpCents(CentsOf(order.subtotal),
                             BaseRateTenThousandths + ListedRate))

\* C2: in the known-county branch discrepancy = collected_tax - expected_tax
\* to the cent (negative when less was collected), and the verdict is
\* 'correct' exactly when |discrepancy| is below one cent, else 'discrepancy'.
C2_DiscrepancyAndVerdict ==
  (Verified /\ InNC /\ CountyRateOf(CountyKey(order.customer_county)) # Undefined) =>
    IF IsNaN(taxResult.expected_tax)
    THEN IsNaN(taxResult.discrepancy) /\ taxResult.verdict = "discrepancy"
    ELSE LET d == CentsOf(order.tax_collected) - CentsOf(taxResult.expected_tax)
         IN /\ taxResult.expected_tax = Money(CentsOf(taxResult.expected_tax))
            /\ taxResult.discrepancy = Money(d)
            /\ taxResult.verdict = IF Abs(d) < 1 THEN "correct" ELSE "discrepancy"

\* Scenario B (seed order CERT-000004): $212.75 in Durham, $13.83 collected,
\* undercharged by $2.13
W2_Undercharged ==
  /\ Verified /\ InNC
  /\ CountyKey(order.customer_county) = "durham"
  /\ order.subtotal = Money(21275) /\ order.tax_collected = Money(1383)
  /\ taxResult.expected_tax = Money(1596)
  /\ taxResult.discrepancy = Money(-213)
  /\ taxResult.verdict = "discrepancy"

\* C3: outside NC applicable = false, expected_rate = 0 and expected_tax = 0;
\* with collected_tax > 0 the verdict is 'discrepancy' and discrepancy is the
\* full collected_tax, otherwise 'not_applicable' and discrepancy = 0.
C3_OutsideNC ==
  (Verified /\ ~InNC) =>
    /\ taxResult.applicable = FALSE
    /\ taxResult.expected_rate = Num(DZero)
    /\ taxResult.expected_tax = DZero
    /\ IF CentsOf(order.tax_collected) > 0
       THEN /\ taxResult.verdict = "discrepancy"
            /\ taxResult.discrepancy = order.tax_collected
       ELSE /\ taxResult.verdict = "not_applicable"
            /\ taxResult.discrepancy = DZero

\* Scenario C (seed order CERT-000009): CA, $11.53 collected
W3_ChargedOutsideNC ==
  /\ Verified /\ ~InNC
  /\ order.tax_collected = Money(1153)
  /\ taxResult.verdict = "discrepancy"
  /\ taxResult.discrepancy = Money(1153)

\* C4: an NC order whose county, in any casing or whitespace variant, is not
\* listed in the rate table gets verdict 'unknown_county' with expected_rate,
\* expected_tax, discrepancy and discrepancy_pct all 0.
C4_UnlistedCountyUnknown ==
  (Verified /\ InNC /\ ~ListedCounty) =>
    /\ taxResult.verdict = "unknown_county"
    /\ taxResult.expected_rate = Num(DZero)
    /\ taxResult.expected_tax = DZero
    /\ taxResult.discrepancy = DZero
    /\ taxResult.discrepancy_pct = DZero

Verdicts == {"correct", "discrepancy", "not_applicable", "unknown_county"}

\* C5: verifyTax returns for every order a result whose verdict is one of
\* the four verdicts; 'not_applicable' only with applicable = false,
\* 'correct' and 'unknown_county' only with applicable = true.
C5_VerdictTotal ==
  Verified =>
    /\ taxResult.verdict \in Verdicts
    /\ taxResult.verdict = "not_applicable" => ~taxResult.applicable
    /\ taxResult.verdict \in {"correct", "unknown_county"} => taxResult.applicable

W5_UnknownCounty ==
  /\ Verified /\ InNC /\ ~ListedCounty
  /\ taxResult.verdict = "unknown_county" /\ taxResult.applicable

(***************************************************************************)
(* Properties of classifyIntent and extractOrderId (IntentSpec).           *)
(***************************************************************************)
Classified == pc \in {"classified", "extracted"}

\* s holds one of the words, in any case
Mentions(s, words) ==
  LET l == toLowerCase(s) IN \E w \in words : Includes(l, w)

\* an order identifier: CERT- in any case and exactly six digits
ValidOrderIdAt(s, i) ==
  /\ OrderIdAt(s, i)
  /\ (i + Len(OrderIdPrefix) + OrderIdDigits > Len(s)
        \/ s[i + Len(OrderIdPrefix) + OrderIdDigits] \notin Digits)
HasValidOrderId(s) == \E i \in 1..Len(s) : ValidOrderIdAt(s, i)

TaxVocabulary ==
  {<<"t", "a", "x">>, <<"t", "a", "x", "e", "s">>,
   <<"t", "a", "x", "e", "d">>, <<"t", "a", "x", " ", "r", "a", "t", "e">>,
   <<"t", "a", "x", " ", "a", "m", "o", "u", "n", "t">>,
   <<"t", "a", "x", " ", "c", "h", "a", "r", "g", "e">>,
   <<"s", "a", "l", "e", "s", " ", "t", "a", "x">>}
ReturnVocabulary ==
  {<<"r", "e", "t", "u", "r", "n">>, <<"r", "e", "f", "u", "n", "d">>,
   <<"r", "m", "a">>, <<"e", "x", "c", "h", "a", "n", "g", "e">>}
ItemVocabulary ==
  {<<"i", "t", "e", "m">>, <<"p", "r", "o", "d", "u", "c", "t">>,
   <<"c", "o", "n", "t", "e", "n", "t", "s">>, <<"k", "i", "t">>,
   <<"g", "e", "a", "r">>}
ShippingVocabulary ==
  {<<"d", "e", "l", "i", "v", "e", "r", "y">>,
   <<"a", "r", "r", "i", "v", "a", "l">>, <<"e", "t", "a">>,
   <<"s", "h", "i", "p">>, <<"t", "r", "a", "n", "s", "i", "t">>}

\* C6: every query maps to exactly one Intent value, and a query with both
\* tax vocabulary and a valid order identifier is classified tax_inquiry
\* whatever return, item or shipping vocabulary it also holds.
C6_TaxPrecedence ==
  Classified =>
    /\ intent \in Intents
    /\ (Mentions(query, TaxVocabulary) /\ HasValidOrderId(query))
         => intent = "tax_inquiry"

W6_TaxWithOrderIdAndReturn ==
  /\ Classified
  /\ Mentions(query, TaxVocabulary) /\ HasValidOrderId(query)
  /\ Mentions(query, ReturnVocabulary)
  /\ intent = "tax_inquiry"

\* the first-match rules as the claim words them
ClaimedIntent(s) ==
  IF HasValidOrderId(s)
  THEN IF Mentions(s, ReturnVocabulary) THEN "order_return"
       ELSE IF Mentions(s, ItemVocabulary) THEN "order_items"
       ELSE IF Mentions(s, ShippingVocabulary) THEN "shipping_estimate"
       ELSE "order_status"
  ELSE IF Mentions(s, ReturnVocabulary) THEN "order_return"
       ELSE IF Mentions(s, ShippingVocabulary) THEN "shipping_estimate"
       ELSE "general_faq"

\* C7 as claimed: a query without tax vocabulary is classified by the ordered
\* rules over return/refund/RMA/exchange, item/product/contents/kit/gear and
\* delivery/arrival/eta/ship/transit, with and without an order identifier.
C7_ClaimedRules ==
  (Classified /\ ~Mentions(query, TaxVocabulary)) => intent = ClaimedIntent(query)

\* the vocabularies the rules hold on
ReturnOrSendBack == ReturnVocabulary \cup {<<"s", "e", "n", "d", " ", "b", "a", "c", "k">>}
ShippingWithId ==
  {<<"d", "e", "l", "i", "v", "e", "r">>,
   <<"a", "r", "r", "i", "v", "a", "l">>, <<"w", "h", "e", "n">>,
   <<"e", "t", "a">>, <<"s", "h", "i", "p">>,
   <<"t", "r", "a", "n", "s", "i", "t">>}
ShippingWithoutId ==
  {<<"d", "e", "l", "i", "v", "e", "r">>, <<"s", "h", "i", "p">>,
   <<"t", "r", "a", "n", "s", "i", "t">>,
   <<"a", "r", "r", "i", "v", "a", "l">>,
   <<"h", "o", "w", " ", "l", "o", "n", "g">>}

\* "what" and later on the same line "order"
AsksWhatOrder(s) ==
  LET l == toLowerCase(s)
  IN \E i \in 1..(Len(l) - 8) :
       /\ l[i] = "w"
       /\ SubSeq(l, i, i + 3) = <<"w", "h", "a", "t">>
       /\ \E j \in (i + 4)..(Len(l) - 4) :
            /\ l[j] = "o"
            /\ SubSeq(l, j, j + 4) = <<"o", "r", "d", "e", "r">>
            /\ \A k \in (i + 4)..(j - 1) : s[k] \notin {"\n", "\r"}

\* C7 amended: with CERT- and six digits in the query: order_return on
\* return/refund/rma/exchange/send back, else order_items on
\* item/product/contents/kit/gear or what...order, else shipping_estimate on
\* deliver/arrival/when/eta/ship/transit, else order_status; without:
\* order_return on return/refund/rma/exchange, else shipping_estimate on
\* deliver/ship/transit/arrival/how long, else general_faq.
C7_FirstMatchRules ==
  (Classified /\ ~Mentions(query, TaxVocabulary)) =>
    LET id == HasOrderId(query)
        ret == Mentions(query, ReturnOrSendBack)
        items == Mentions(query, ItemVocabulary) \/ AsksWhatOrder(query)
        ship == Mentions(query, ShippingWithId)
        ret0 == Mentions(query, ReturnVocabulary)
        ship0 == Mentions(query, ShippingWithoutId)
    IN /\ (id /\ ret) => intent = "order_return"
       /\ (id /\ ~ret /\ items) => intent = "order_items"
       /\ (id /\ ~ret /\ ~items /\ ship) => intent = "shipping_estimate"
       /\ (id /\ ~ret /\ ~items /\ ~ship) => intent = "order_status"
       /\ (~id /\ ret0) => intent = "order_return"
       /\ (~id /\ ~ret0 /\ ship0) => intent = "shipping_estimate"
       /\ (~id /\ ~ret0 /\ ~ship0) => intent = "general_faq"

\* an identified query asking "when", with return and item words absent
W7_WhenWithOrderId ==
  /\ Classified
  /\ ~Mentions(query, TaxVocabulary)
  /\ HasValidOrderId(query)
  /\ Mentions(query, {<<"w", "h", "e", "n">>})
  /\ ~Mentions(query, ShippingVocabulary)
  /\ intent = "shipping_estimate"

\* C8: extractOrderId returns a value only when the query holds CERT- (any
\* case) followed by exactly six digits; the value is the first such
\* occurrence, uppercased; it returns null when there is none.
C8_ExactlySixDigits ==
  pc = "extracted" =>
    IF HasValidOrderId(query)
    THEN LET i == CHOOSE i \in 1..Len(query) :
                    ValidOrderIdAt(query, i)
                    /\ \A j \in 1..(i - 1) : ~ValidOrderIdAt(query, j)
         IN orderId = Str(toUpperCase(SubSeq(query, i, i + 10)))
    ELSE orderId = Null

(***************************************************************************)
(* Properties of evaluateResponse (EvalSpec).                              *)
(***************************************************************************)
Evaluated == pc = "evaluated"

\* the standalone numeric token s[i..j]: digits only, no word character
\* before or after
NumericTokenAt(s, i, j) ==
  /\ i <= j
  /\ \A k \in i..j : s[k] \in Digits
  /\ (i = 1 \/ ~IsWordChar(s[i - 1]))
  /\ (j = Len(s) \/ ~IsWordChar(s[j + 1]))

\* the text holds a standalone numeric token of 10 or more digits other than
\* the tracking number
FabricatedNumber(s, tracking_number) ==
  \E i \in 1..Len(s), j \in 1..Len(s) :
    /\ NumericTokenAt(s, i, j)
    /\ j - i + 1 >= 10
    /\ SubSeq(s, i, j) # tracking_number

\* C9: with an order, faithfulness is 0.4 whenever the text holds a
\* standalone numeric token of 10 or more digits that does not match the
\* order's tracking number, and 0.95 otherwise.
C9_FaithfulnessFlagsFabrication ==
  (Evaluated /\ order # Null) =>
    evalMetrics.faithfulness =
      IF FabricatedNumber(response, order.tracking_number)
      THEN DecLit(4, 10) ELSE DecLit(95, 100)

AttributionOrder ==
  <<"status", "tracking_number", "carrier", "estimated_delivery",
    "customer_name", "tax_collected", "expected_tax">>

\* a occurs in s, case-insensitively
OccursIn(a, s) == Includes(toLowerCase(s), toLowerCase(a))

\* the entries of a follow the order of AttributionOrder, none twice
InAttributionOrder(a) ==
  /\ \A k \in 1..Len(a) : \E p \in 1..Len(AttributionOrder) : a[k] = AttributionOrder[p]
  /\ \A k \in 1..(Len(a) - 1) :
       \E p, q \in 1..Len(AttributionOrder) :
         p < q /\ a[k] = AttributionOrder[p] /\ a[k + 1] = AttributionOrder[q]

\* the value of the named field, with nameValue standing for customer_name
FieldValue(field, nameValue) ==
  CASE field = "status" -> order.status
    [] field = "tracking_number" -> order.tracking_number
    [] field = "carrier" -> order.carrier
    [] field = "estimated_delivery" -> order.estimated_delivery
    [] field = "customer_name" -> nameValue
    [] field = "tax_collected" -> NumberToString(order.tax_collected)
    [] field = "expected_tax" -> NumberToString(taxResult.expected_tax)

AttributionSound(nameValue) ==
  Evaluated =>
    IF order = Null THEN evalMetrics.chunk_attribution = <<>>
    ELSE /\ InAttributionOrder(evalMetrics.chunk_attribution)
         /\ \A k \in 1..Len(evalMetrics.chunk_attribution) :
              OccursIn(FieldValue(evalMetrics.chunk_attribution[k], nameValue),
                       response)

\* C10 as claimed: a field name is in the attribution list only if the
\* field's value occurs in the text (case-insensitively); the entries follow
\* the fixed order, none twice; the list is empty without an order.
C10_AttributionOfValues ==
  AttributionSound(IF order = Null THEN <<>> ELSE order.customer_name)

\* C10 amended: as claimed, except that customer_name is listed when the
\* first space-delimited word of the customer's name occurs in the text.
C10_AttributionOfFirstName ==
  AttributionSound(IF order = Null THEN <<>> ELSE FirstWord(order.customer_name))

\* the first name occurs, the full name does not, and two fields are listed
W10_FirstNameOnly ==
  /\ Evaluated /\ order # Null
  /\ ~OccursIn(order.customer_name, response)
  /\ Len(evalMetrics.chunk_attribution) >= 2
  /\ \E k \in 1..Len(evalMetrics.chunk_attribution) :
       evalMetrics.chunk_attribution[k] = "customer_name"

(***************************************************************************)
(* Properties of fetch (FetchSpec).                                        *)
(***************************************************************************)
PipelineCalls == {"db.select", "db.update", "ai.run", "analytics.write"}

\* r was answered 405, 429, 400 or 403
Rejected(r) == r.response # Null /\ r.response.status \in {405, 429, 400, 403}

\* r has done some of the pipeline's work
InPipeline(r) ==
  \/ r.calls \cap PipelineCalls # {}
  \/ r.lookup # "none" \/ r.order # Null \/ r.taxResult # Null
  \/ r.update.status # "none"
  \/ r.steps # <<>> \/ r.llm # "none" \/ r.evalMetrics # Null
  \/ r.trace # Null \/ r.emission # "none"

\* r is a POST that was let through by the rate limit, held a query and,
\* where a secret is set, was validated
PassedGates(r) ==
  /\ "kv.put" \in r.calls /\ r.pc # "kv.put"
  /\ r.query # <<>>
  /\ env.TURNSTILE_SECRET => ("turnstile" \in r.calls /\ r.pc # "turnstile")
  /\ ~Rejected(r)

\* C11: a request rejected with 405, 429, 400 or 403 has caused no order
\* lookup, no tax_verified update, no generative-service call, no evaluation
\* and no trace emission; only requests that passed every gate do any of it.
C11_GatesBeforePipeline ==
  \A i \in DOMAIN req :
    /\ Rejected(req[i]) => ~InPipeline(req[i])
    /\ InPipeline(req[i]) => PassedGates(req[i])

\* a request was validated by the challenge service and rejected
W11_ChallengeFailed ==
  \E i \in DOMAIN req :
    /\ req[i].response # Null /\ req[i].response.status = 403
    /\ req[i].calls = {"kv.get", "kv.put", "turnstile"}

\* r has ended: a response was returned or an exception left fetch
Ended(r) == r.pc \in {"done", "thrown"}

\* C12: every request that passed the gates ends with a complete 200
\* response: a store failure reads as order not found with tax_check null,
\* a generative-service failure yields the apology text, tax_check is
\* non-null exactly when order_found, and order_found implies an order_id.
C12_AlwaysComplete ==
  \A i \in DOMAIN req :
    (PassedGates(req[i]) /\ Ended(req[i])) =>
      /\ req[i].response # Null
      /\ req[i].response.status = 200
      /\ req[i].response.body.order_found = (req[i].lookup = "row")
      /\ req[i].llm = "error" => req[i].response.body.response = Chars(ApologyText)
      /\ (req[i].response.body.tax_check # Null) = req[i].response.body.order_found
      /\ req[i].response.body.order_found => req[i].response.body.order_id # Null

\* C13: the response is returned while the emission is still to run, and
\* once returned it stays as it is, whatever becomes of the emission.
C13_FireAndForget ==
  [][\A i \in DOMAIN req :
       /\ req[i].response # Null => req'[i].response = req[i].response
       /\ (req[i].response = Null /\ req'[i].response # Null
             /\ req'[i].response.status = 200 /\ req'[i].trace # Null)
            => req'[i].emission = "pending"]_vars

\* a 200 response whose emission failed
W13_EmissionFailed ==
  \E i \in DOMAIN req :
    /\ req[i].response # Null /\ req[i].response.status = 200
    /\ req[i].emission = "failed"
    /\ sink = {}

StageOrder == <<"retriever", "llm", "evaluator">>

\* the steps of r are those of the stages r has finished, in stage order
StepsFollowStages(r) ==
  /\ Len(r.steps) <= Len(StageOrder)
  /\ \A k \in 1..Len(r.steps) : r.steps[k].step_type = StageOrder[k]
  /\ Len(r.steps) >= 1 =>
       /\ r.orderId # Null => r.lookup # "none"
       /\ r.steps[1].metadata.order_found = (r.lookup = "row")
  /\ Len(r.steps) >= 2 => (r.llm # "none" /\ r.steps[2].output = r.answer)
  /\ Len(r.steps) >= 3 => (r.evalMetrics # Null /\ r.steps[3].output = r.evalMetrics)

\* C14: a trace holds exactly the three steps retriever, llm, evaluator,
\* each appended after its stage has finished; every request that passed the
\* gates and got its response has one; a trace and its steps never change
\* once assembled, and the sink receives the point of that trace.
C14_TraceOfThreeSteps ==
  /\ [](\A i \in DOMAIN req :
          /\ StepsFollowStages(req[i])
          /\ req[i].trace # Null =>
               /\ Len(req[i].trace.steps) = 3
               /\ req[i].trace.steps = req[i].steps
               /\ PassedGates(req[i])
          /\ (PassedGates(req[i]) /\ req[i].pc = "done") => req[i].trace # Null
          /\ \A w \in sink : w[1] = i => w[2] = DataPoint(req[i].trace))
  /\ [][\A i \in DOMAIN req :
          req[i].trace # Null =>
            (req'[i].trace = req[i].trace /\ req'[i].steps = req[i].steps)]_vars

\* a trace was assembled and its point written
W14_TraceWritten ==
  \E i \in DOMAIN req :
    /\ req[i].trace # Null
    /\ req[i].emission = "written"
    /\ <<i, DataPoint(req[i].trace)>> \in sink
    /\ req[i].lookup = "row"

(***************************************************************************)
(* Properties of buildPrompt (PromptSpec).                                 *)
(***************************************************************************)
Prompted == pc = "classified" /\ prompt # Null

\* text is the JSON of a list of items
WellFormedItems(text) ==
  /\ JSONParse(text) # SyntaxError
  /\ JSONParse(text).json = "array"
  /\ \A k \in 1..Len(JSONParse(text).elements) :
       /\ JSONParse(text).elements[k].json = "object"
       /\ {"name", "qty", "sku"} \subseteq DOMAIN JSONParse(text).elements[k]

\* C15: buildPrompt returns an instruction for every resolved order whatever
\* its items text holds; a malformed item list is rendered as N/A.
C15_PromptForEveryItemsText ==
  (Prompted /\ order # Null) =>
    /\ ~prompt.thrown
    /\ ~WellFormedItems(order.items) => prompt.Items = NotAvailable

IsRoundedPct(p, part, whole) == 2 * Abs(10000 * part - p * whole) <= whole

\* C17: in the known-county branch discrepancy_pct is |discrepancy| /
\* expected_tax x 100 rounded to 2 decimals when expected_tax > 0 and 0 when
\* expected_tax is 0; with subtotal 0 and collected_tax > 0 the verdict is
\* 'discrepancy', discrepancy = collected_tax and discrepancy_pct = 0.
C17_DiscrepancyPct ==
  (Verified /\ InNC /\ ListedCounty) =>
    /\ CentsOf(taxResult.expected_tax) > 0 =>
         /\ taxResult.discrepancy_pct = Money(CentsOf(taxResult.discrepancy_pct))
         /\ IsRoundedPct(CentsOf(taxResult.discrepancy_pct),
                         Abs(CentsOf(taxResult.discrepancy)),
                         CentsOf(taxResult.expected_tax))
    /\ CentsOf(taxResult.expected_tax) = 0 => taxResult.discrepancy_pct = DZero
    /\ (CentsOf(order.subtotal) = 0 /\ CentsOf(order.tax_collected) > 0) =>
         /\ taxResult.verdict = "discrepancy"
         /\ taxResult.discrepancy = order.tax_collected
         /\ taxResult.discrepancy_pct = DZero

\* $4.75 in Alamance, $0.03 collected: 29/32 of the expected $0.32 is missing
W17_TieOfHundredths ==
  /\ Verified /\ InNC /\ ListedCounty
  /\ order.subtotal = Money(475) /\ order.tax_collected = Money(3)
  /\ taxResult.expected_tax = Money(32)
  /\ taxResult.discrepancy = Money(-29)
  /\ taxResult.discrepancy_pct = Money(9062)

\* 0 <= x <= 1
InUnitInterval(x) == ~IsNaN(x) /\ ~x.neg /\ ~DGt(x, DFromInt(1))

\* how many of the keywords occur in the text, in any case
KeywordsFound(keywords, text) ==
  LET l == toLowerCase(text)
  IN Cardinality({kw \in keywords : Includes(l, toLowerCase(kw))})

\* 0.5 + 0.5 x (found / total)
ClaimedAdherence(found, total) ==
  LET half == DecLit(5, 10)
  IN DAdd(half, DMul(half, DDiv(DFromInt(found), DFromInt(total))))

\* C18: with an order context_adherence is 0.5 + 0.5 x (keywords found /
\* keywords of the intent), and 0.8 for an intent without keywords; it lies
\* in [0.5, 1.0], is 1.0 exactly when every keyword occurs, and all four
\* scores lie in [0.0, 1.0].
C18_ContextAdherence ==
  (Evaluated /\ order # Null) =>
    LET found == KeywordsFound(intentKeywords[intent], response)
        total == Cardinality(intentKeywords[intent])
    IN /\ evalMetrics.context_adherence
            = IF total = 0 THEN DecLit(8, 10) ELSE ClaimedAdherence(found, total)
       /\ ~DLt(evalMetrics.context_adherence, DecLit(5, 10))
       /\ total # 0 => ((evalMetrics.context_adherence = DFromInt(1)) = (found = total))
       /\ InUnitInterval(evalMetrics.faithfulness)
       /\ InUnitInterval(evalMetrics.context_adherence)
       /\ InUnitInterval(evalMetrics.groundedness)
       /\ InUnitInterval(evalMetrics.completeness)

\* every keyword of the intent occurs in the response
W18_EveryKeyword ==
  /\ Evaluated /\ order # Null
  /\ intentKeywords[intent] # {}
  /\ \A kw \in intentKeywords[intent] : OccursIn(kw, response)
  /\ evalMetrics.context_adherence = DFromInt(1)

(***************************************************************************)
(* Properties of concurrent requests (RaceSpec).                           *)
(***************************************************************************)
\* C19: in one window at most RATE_LIMIT_MAX requests of a client pass the
\* rate-limit gate, however the requests interleave.
C19_AtMostMaxAdmitted == admitted <= RATE_LIMIT_MAX

\* the flag the claim gives a verdict
FlagOfVerdict(verdict) ==
  CASE verdict = "correct" -> 1
    [] verdict = "discrepancy" -> -1
    [] verdict \in {"not_applicable", "unknown_county"} -> 0

\* C20: an update of tax_verified is scheduled exactly when the order was
\* found, with 1 for correct, -1 for discrepancy and 0 otherwise; the trace
\* carries the flag as read; a response once returned stays as it is
\* whatever becomes of the update; and once an update has run the stored
\* flag is the flag of the order's verdict.
C20_BackgroundFlagUpdate ==
  /\ [](\A i \in DOMAIN req :
          /\ (req[i].update.status # "none") = (req[i].lookup = "row")
          /\ req[i].update.status # "none" =>
               req[i].update.value = FlagOfVerdict(req[i].taxResult.verdict)
          /\ req[i].trace # Null =>
               req[i].trace.tax_verified
                 = IF req[i].lookup = "row"
                   THEN Num(req[i].order.tax_verified) ELSE Null
          /\ req[i].update.status = "done" =>
               db.tax_verified = FlagOfVerdict(verifyTax(db).verdict))
  /\ [][\A i \in DOMAIN req :
          req[i].response # Null => req'[i].response = req[i].response]_vars

\* a response returned before its update ran, carrying the flag as read
W20_FlagReadBeforeUpdate ==
  \E i \in DOMAIN req :
    /\ req[i].response # Null /\ req[i].response.status = 200
    /\ req[i].update.status = "done"
    /\ req[i].trace.tax_verified = Num(0)
    /\ db.tax_verified = -1

=============================================================================
